---- MODULE Spec2Model ----
(***************************************************************************)
(* Model of the bulk importer of MangaSearch (src/data/bulk_insert.py):    *)
(* MangaBulkImporter.import_file and the statements it sends to the store, *)
(* with the table keys of src/manga_search/model/models.py.                *)
(*                                                                         *)
(* Text is a sequence of one-character strings, so that strip() is         *)
(* computed.  A JSON value is a record [k, s, n, items, kv]: k is the      *)
(* kind ("null", "bool", "num", "str", "list", "dict"), s the text of a    *)
(* string, n the number (or 0/1 of a boolean), items the elements of a     *)
(* list and kv the <<key, value>> pairs of an object, in document order.   *)
(***************************************************************************)
EXTENDS Integers, Sequences, FiniteSets, Bags, TLC

\* ------------------------------------------------------------------ bounds

\* Invocations of main() on the same file that a behaviour may hold.
MaxRuns == 2

\* Longest parsed input file, in records.
MaxFileLen == 3

\* Largest --batch-size option tried (the option is any positive integer).
MaxBatchSize == 2

\* Longest file given to the line parser, in lines.
MaxLines == 3

\* Lookup rows that other writers commit while one import runs.
MaxForeign == 1

\* Longest list given to _extract_names as a name field, in elements.
MaxItems == 2

\* Longest links list of a record given to the link classification.
MaxLinks == 2

\* --------------------------------------------------------------- helpers

NULL == "null"

Range(s) == {s[j] : j \in DOMAIN s}

Min(a, b) == IF a < b THEN a ELSE b

\* The permutations of a finite set, as sequences: the orders in which
\* Python may iterate a set.
Perms(S) ==
  {s \in [1..Cardinality(S) -> S] : \A a, b \in DOMAIN s : a # b => s[a] # s[b]}

RECURSIVE SumBags(_)
\* The bag union of a sequence of bags.
SumBags(bs) ==
  IF bs = <<>> THEN EmptyBag ELSE Head(bs) (+) SumBags(Tail(bs))

RECURSIVE SeqToBag(_)
\* The bag of the elements of a sequence, with multiplicity.
SeqToBag(s) ==
  IF s = <<>> THEN EmptyBag ELSE SetToBag({Head(s)}) (+) SeqToBag(Tail(s))

\* ------------------------------------------------------------ JSON values

JV(kind, str, num, its, pairs) ==
  [k |-> kind, s |-> str, n |-> num, items |-> its, kv |-> pairs]

JNull == JV("null", <<>>, 0, <<>>, <<>>)

JStr(str) == JV("str", str, 0, <<>>, <<>>)

JNum(num) == JV("num", <<>>, num, <<>>, <<>>)

JBool(b) == JV("bool", <<>>, IF b THEN 1 ELSE 0, <<>>, <<>>)

JList(its) == JV("list", <<>>, 0, its, <<>>)

JDict(pairs) == JV("dict", <<>>, 0, <<>>, pairs)

\* Python truthiness of a JSON value (`if not data_list`, `a or b`).
Truthy(v) ==
  CASE v.k = "null" -> FALSE
    [] v.k = "bool" -> v.n = 1
    [] v.k = "num"  -> v.n # 0
    [] v.k = "str"  -> v.s # <<>>
    [] v.k = "list" -> v.items # <<>>
    [] OTHER        -> v.kv # <<>>

\* dict.get(key): the value of the last pair with that key, None if absent.
DictGet(d, key) ==
  LET hits == {j \in DOMAIN d.kv : d.kv[j][1] = key}
  IN  IF hits = {} THEN JNull
      ELSE d.kv[CHOOSE j \in hits : \A h \in hits : h <= j][2]

IsSpace(c) == c \in {" ", "\t", "\n"}

RECURSIVE LStrip(_)
LStrip(s) ==
  IF s # <<>> /\ IsSpace(Head(s)) THEN LStrip(Tail(s)) ELSE s

RECURSIVE RStrip(_)
RStrip(s) ==
  IF s # <<>> /\ IsSpace(s[Len(s)]) THEN RStrip(SubSeq(s, 1, Len(s) - 1)) ELSE s

\* Variant: only the leading blanks are dropped.
Strip_Leading(s) == LStrip(s)

\* str.strip()
Strip(s) == RStrip(LStrip(s))

Digit(d) ==
  CASE d = 0 -> "0" [] d = 1 -> "1" [] d = 2 -> "2" [] d = 3 -> "3"
    [] d = 4 -> "4" [] d = 5 -> "5" [] d = 6 -> "6" [] d = 7 -> "7"
    [] d = 8 -> "8" [] OTHER -> "9"

RECURSIVE NatStr(_)
NatStr(m) ==
  IF m < 10 THEN <<Digit(m)>> ELSE NatStr(m \div 10) \o <<Digit(m % 10)>>

RECURSIVE PyStr(_)
RECURSIVE PyStrItems(_)
RECURSIVE PyStrPairs(_)
\* str(x) of a JSON value decoded by json.loads: the text of a string, the
\* digits of an integer, True/False, None, and the repr of a list or dict.
PyStr(v) ==
  CASE v.k = "str"  -> v.s
    [] v.k = "num"  -> IF v.n < 0 THEN <<"-">> \o NatStr(-v.n) ELSE NatStr(v.n)
    [] v.k = "bool" -> IF v.n = 1 THEN <<"T", "r", "u", "e">>
                                  ELSE <<"F", "a", "l", "s", "e">>
    [] v.k = "null" -> <<"N", "o", "n", "e">>
    [] v.k = "list" -> <<"[">> \o PyStrItems(v.items) \o <<"]">>
    [] OTHER        -> <<"{">> \o PyStrPairs(v.kv) \o <<"}">>

PyRepr(v) ==
  IF v.k = "str" THEN <<"'">> \o v.s \o <<"'">> ELSE PyStr(v)

PyStrItems(its) ==
  IF its = <<>> THEN <<>>
  ELSE PyRepr(Head(its))
       \o (IF Tail(its) = <<>> THEN <<>> ELSE <<",", " ">> \o PyStrItems(Tail(its)))

PyStrPairs(pairs) ==
  IF pairs = <<>> THEN <<>>
  ELSE <<"'">> \o Head(pairs)[1] \o <<"'", ":", " ">> \o PyRepr(Head(pairs)[2])
       \o (IF Tail(pairs) = <<>> THEN <<>> ELSE <<",", " ">> \o PyStrPairs(Tail(pairs)))

RECURSIVE JsonDumps(_)
RECURSIVE JsonDumpsItems(_)
RECURSIVE JsonDumpsPairs(_)
\* orjson.dumps(x).decode(): compact JSON text.
JsonDumps(v) ==
  CASE v.k = "str"  -> <<"\"">> \o v.s \o <<"\"">>
    [] v.k = "num"  -> IF v.n < 0 THEN <<"-">> \o NatStr(-v.n) ELSE NatStr(v.n)
    [] v.k = "bool" -> IF v.n = 1 THEN <<"t", "r", "u", "e">>
                                  ELSE <<"f", "a", "l", "s", "e">>
    [] v.k = "null" -> <<"n", "u", "l", "l">>
    [] v.k = "list" -> <<"[">> \o JsonDumpsItems(v.items) \o <<"]">>
    [] OTHER        -> <<"{">> \o JsonDumpsPairs(v.kv) \o <<"}">>

JsonDumpsItems(its) ==
  IF its = <<>> THEN <<>>
  ELSE JsonDumps(Head(its))
       \o (IF Tail(its) = <<>> THEN <<>> ELSE <<",">> \o JsonDumpsItems(Tail(its)))

JsonDumpsPairs(pairs) ==
  IF pairs = <<>> THEN <<>>
  ELSE <<"\"">> \o Head(pairs)[1] \o <<"\"", ":">> \o JsonDumps(Head(pairs)[2])
       \o (IF Tail(pairs) = <<>> THEN <<>> ELSE <<",">> \o JsonDumpsPairs(Tail(pairs)))

\* ------------------------------------------------- name-set extraction

KeyName == <<"n", "a", "m", "e">>

KeyNameCap == <<"N", "a", "m", "e">>

KeyTitle == <<"t", "i", "t", "l", "e">>

KeyTitleCap == <<"T", "i", "t", "l", "e">>

\* `a or b or c or d or str(item)` of _extract_names: the first truthy
\* candidate, whatever its type, else the repr of the object.
DictNameCandidate(item) ==
  LET a == DictGet(item, KeyName)
      b == DictGet(item, KeyNameCap)
      c == DictGet(item, KeyTitle)
      d == DictGet(item, KeyTitleCap)
  IN  IF Truthy(a) THEN a
      ELSE IF Truthy(b) THEN b
      ELSE IF Truthy(c) THEN c
      ELSE IF Truthy(d) THEN d
      ELSE JStr(PyStr(item))

\* Variant: the names taken as they are spelled, without strip().
ItemNames_NoStrip(item) ==
  CASE item.k = "str" -> IF item.s # <<>> THEN {item.s} ELSE {}
    [] item.k = "dict" ->
         LET name == DictNameCandidate(item)
         IN  IF Truthy(name) /\ name.k = "str" THEN {name.s} ELSE {}
    [] item.k = "null" -> {}
    [] OTHER -> {PyStr(item)}

\* The names one element of the iteration adds (the body of the for loop).
ItemNames(item) ==
  CASE item.k = "str" ->
         IF Strip(item.s) # <<>> THEN {Strip(item.s)} ELSE {}
    [] item.k = "dict" ->
         LET name == DictNameCandidate(item)
         IN  IF Truthy(name) /\ name.k = "str" /\ Strip(name.s) # <<>>
             THEN {Strip(name.s)} ELSE {}
    [] item.k = "null" -> {}
    [] OTHER ->
         IF Strip(PyStr(item)) # <<>> THEN {Strip(PyStr(item))} ELSE {}

\* What `for item in data_list` yields: the elements of a list, the
\* characters of a string, the keys of a dict.
IterItems(v) ==
  CASE v.k = "list" -> v.items
    [] v.k = "str"  -> [j \in DOMAIN v.s |-> JStr(<<v.s[j]>>)]
    [] v.k = "dict" -> [j \in DOMAIN v.kv |-> JStr(v.kv[j][1])]
    [] OTHER        -> <<>>

\* _extract_names: a number or a boolean raises TypeError in the for
\* statement; the handler adds the field only if it is a string, which a
\* value that raised never is.
ExtractNames(data_list) ==
  IF ~Truthy(data_list) THEN {}
  ELSE IF data_list.k \in {"list", "str", "dict"}
       THEN UNION {ItemNames(IterItems(data_list)[j]) : j \in DOMAIN IterItems(data_list)}
       ELSE {}

\* ------------------------------------------------------- the manga table

\* The columns of the VALUES tuple of insert_manga_data, id aside.
InsertCols ==
  {"state", "title", "native_title", "romanized_title", "description", "year",
   "status", "is_licensed", "has_anime", "anime", "content_rating", "type",
   "rating", "final_volume", "final_chapter", "total_chapters",
   "last_updated_at"}

\* The columns of the DO UPDATE SET list that take EXCLUDED's value.
UpdateCols ==
  {"state", "title", "native_title", "romanized_title", "description", "year",
   "status", "is_licensed", "has_anime", "anime", "content_rating",
   "rating", "final_volume", "final_chapter", "total_chapters",
   "last_updated_at"}

\* Columns of the table the statement never names.
StoreCols == {"merged_with", "created_at", "updated_at"}

AllCols == InsertCols \cup StoreCols

\* The anime column as sent: None, a string as it is, a dict as JSON text,
\* anything else formatted by an f-string.  A <<tag, text>> pair.
AnimeValue(anime) ==
  CASE anime.k = "null" -> <<"null", <<>>>>
    [] anime.k = "str"  -> <<"text", anime.s>>
    [] anime.k = "dict" -> <<"text", JsonDumps(anime)>>
    [] OTHER            -> <<"text", PyStr(anime)>>

\* The tuple insert_manga_data appends for one record.
MangaTuple(manga) ==
  [c \in InsertCols |->
     CASE c = "title" -> IF manga.title \in {NULL, ""} THEN "" ELSE manga.title
       [] c = "anime" -> AnimeValue(manga.anime)
       [] OTHER       -> manga[c]]

\* INSERT of a new row: the named columns from the tuple, the timestamps
\* from the clock of the store.
InsertedRow(tuple, now) ==
  [c \in AllCols |->
     CASE c \in InsertCols -> tuple[c]
       [] c = "merged_with" -> NULL
       [] OTHER -> now]

\* ON CONFLICT (id) DO UPDATE SET ...: the listed columns from EXCLUDED,
\* updated_at from the clock, every other column as it was.
UpdatedRow(old, tuple, now) ==
  [c \in AllCols |->
     CASE c \in UpdateCols -> tuple[c]
       [] c = "updated_at" -> now
       [] OTHER -> old[c]]

UpsertManga(tbl, id, tuple, now) ==
  IF id \in DOMAIN tbl
  THEN [tbl EXCEPT ![id] = UpdatedRow(tbl[id], tuple, now)]
  ELSE [j \in DOMAIN tbl \cup {id} |->
          IF j = id THEN InsertedRow(tuple, now) ELSE tbl[j]]

RECURSIVE UpsertAll(_, _, _)
\* The rows of one INSERT statement, applied in order.
UpsertAll(tbl, mangas, now) ==
  IF mangas = <<>> THEN tbl
  ELSE UpsertAll(UpsertManga(tbl, Head(mangas).id, MangaTuple(Head(mangas)), now),
                 Tail(mangas), now)

\* The columns of manga of a numeric type: Integer, DECIMAL(3, 1), Float,
\* Float.
NumericCols == {"year", "rating", "final_volume", "final_chapter"}

\* A text that is no number, as a record may carry it in any field.  The
\* other scalar values of the model stand for values of the column's type.
NonNumeric == "N/A"

\* PostgreSQL rejects the statement when a numeric column is given a text
\* that is no number ("invalid input syntax for type ...").
TypeRejected(tuple) == \E c \in NumericCols : tuple[c] = NonNumeric

\* PostgreSQL rejects an INSERT ... ON CONFLICT DO UPDATE whose VALUES name
\* the same key twice ("cannot affect row a second time").
UpsertRejected(mangas) ==
  \E a, b \in DOMAIN mangas : a # b /\ mangas[a].id = mangas[b].id

\* execute_values sends the rows in statements of page_size rows each.
Pages(rows, page_size) ==
  [p \in 1..((Len(rows) + page_size - 1) \div page_size) |->
     SubSeq(rows, (p - 1) * page_size + 1, Min(p * page_size, Len(rows)))]

\* ------------------------------------------------------------ the store

LookupTables == {"authors", "artists", "genres", "tags", "publishers"}

\* Tables whose rows carry a key over their data columns: the five join
\* tables have a composite primary key.  manga_covers,
\* manga_secondary_titles and manga_links have the surrogate id alone.
JoinTables == LookupTables

ChildTables == {"manga_covers", "manga_secondary_titles", "manga_links"}

\* Variant: no table has a key over its data columns.
HasNaturalKey_None(t) == FALSE

HasNaturalKey(t) == t \in JoinTables

\* Variant: the rows of the statement replace the rows of the table.
InsertOrIgnore_Replace(t, tbl, data) == data

\* INSERT ... VALUES data ON CONFLICT DO NOTHING into a table held as a bag
\* of data tuples: with a key over the data columns a tuple already there
\* (or earlier in the statement) is skipped, without one nothing conflicts.
InsertOrIgnore(t, tbl, data) ==
  IF HasNaturalKey(t)
  THEN [e \in DOMAIN tbl \cup DOMAIN data |-> IF e \in DOMAIN tbl THEN tbl[e] ELSE 1]
  ELSE tbl (+) data

\* manga_relationships is not declared in models.py; the statement relies
\* on ON CONFLICT DO NOTHING over (manga_id, related_manga_id, type).
InsertRelationshipsOrIgnore(tbl, data) ==
  [e \in DOMAIN tbl \cup DOMAIN data |-> IF e \in DOMAIN tbl THEN tbl[e] ELSE 1]

EmptyStore ==
  [manga |-> <<>>,
   lookup |-> [t \in LookupTables |-> <<>>],
   join |-> [t \in JoinTables |-> EmptyBag],
   child |-> [t \in ChildTables |-> EmptyBag],
   manga_relationships |-> EmptyBag,
   manga_external_sources |-> <<>>,
   external_sources |-> <<>>]

\* ----------------------------------------------------- the lookup tables

\* f with key k set to v.
Put(f, k, v) == [x \in DOMAIN f \cup {k} |-> IF x = k THEN v ELSE f[x]]

\* Variant: only the first of the rows is cached.
CacheUpdate_FirstOnly(cache, rows) ==
  IF rows = <<>> THEN cache ELSE Put(cache, rows[1][1], rows[1][2])

\* cache[name] = id for every <<name, id>> of rows.
CacheUpdate(cache, rows) ==
  [x \in DOMAIN cache \cup {r[1] : r \in Range(rows)} |->
     IF \E r \in Range(rows) : r[1] = x
     THEN (CHOOSE r \in Range(rows) : r[1] = x)[2]
     ELSE cache[x]]

RECURSIVE InsertNames_Overwrite(_, _, _, _)
\* Variant: ON CONFLICT (name) DO UPDATE, the row rewritten under a new id.
InsertNames_Overwrite(tbl, sq, names, acc) ==
  IF names = <<>> THEN [tbl |-> tbl, sq |-> sq, results |-> acc]
  ELSE InsertNames_Overwrite(Put(tbl, Head(names), sq + 1), sq + 1, Tail(names),
                             Append(acc, <<Head(names), sq + 1>>))

RECURSIVE InsertNames(_, _, _, _)
\* INSERT INTO t (name) VALUES ... ON CONFLICT (name) DO NOTHING RETURNING
\* name, id; one statement.  The id of a row comes from the sequence of
\* the table, which a row that then conflicts has drawn from as well.  acc
\* collects the returned rows.
InsertNames(tbl, sq, names, acc) ==
  IF names = <<>> THEN [tbl |-> tbl, sq |-> sq, results |-> acc]
  ELSE IF Head(names) \in DOMAIN tbl
       THEN InsertNames(tbl, sq + 1, Tail(names), acc)
       ELSE InsertNames(Put(tbl, Head(names), sq + 1), sq + 1, Tail(names),
                        Append(acc, <<Head(names), sq + 1>>))

RECURSIVE InsertNamePages(_, _, _, _)
\* execute_values: one statement per page; the cursor then holds the rows
\* the last statement returned.
InsertNamePages(tbl, sq, pages, last) ==
  IF pages = <<>> THEN [tbl |-> tbl, sq |-> sq, results |-> last]
  ELSE LET r == InsertNames(tbl, sq, Head(pages), <<>>)
       IN  InsertNamePages(r.tbl, r.sq, Tail(pages), r.results)

\* SELECT name, id FROM t WHERE name IN (names)
SelectByName(tbl, names) ==
  LET found == SelectSeq(names, LAMBDA x : x \in DOMAIN tbl)
  IN  [j \in DOMAIN found |-> <<found[j], tbl[found[j]]>>]

\* Variant: the cache filled from the returned rows alone.
InsertAndCache_NoSelect(tbl, sq, cache, data, page_size) ==
  IF data = <<>> THEN [tbl |-> tbl, sq |-> sq, cache |-> cache]
  ELSE LET r == InsertNamePages(tbl, sq, Pages(data, page_size), <<>>)
       IN  [tbl |-> r.tbl, sq |-> r.sq, cache |-> CacheUpdate(cache, r.results)]

\* _insert_and_cache(table, data, cache)
InsertAndCache(tbl, sq, cache, data, page_size) ==
  IF data = <<>> THEN [tbl |-> tbl, sq |-> sq, cache |-> cache]
  ELSE LET r == InsertNamePages(tbl, sq, Pages(data, page_size), <<>>)
           c1 == CacheUpdate(cache, r.results)
           c2 == IF Len(r.results) < Len(data)
                 THEN CacheUpdate(c1, SelectByName(r.tbl, data))
                 ELSE c1
       IN  [tbl |-> r.tbl, sq |-> r.sq, cache |-> c2]

\* The field of a record that feeds lookup table t.
NameField(manga, t) == manga[t]

\* The names insert_lookup_data collects for table t from the batch: tags
\* and publishers are read only when truthy.
BatchNames(batch, t) ==
  UNION {ExtractNames(NameField(batch[j], t)) : j \in DOMAIN batch}

\* Variant: every name of the batch is sent, cached or not.
NewNames_All(batch, t, cache) == BatchNames(batch, t)

\* The names of the batch not in the cache: the new_authors list, as a set.
NewNames(batch, t, cache) == BatchNames(batch, t) \ DOMAIN cache

\* ------------------------------------------------ the related-data rows

\* dict.items() of a JSON object, or nothing when the field is falsy.
ItemsOf(v) == IF Truthy(v) /\ v.k = "dict" THEN v.kv ELSE <<>>

\* dict.get(key, default)
DictGetOr(d, key, default) ==
  IF \E j \in DOMAIN d.kv : d.kv[j][1] = key THEN DictGet(d, key) ELSE default

\* The rows _insert_secondary_titles appends for one record.
SecondaryTitleRows(manga) ==
  LET pairs == ItemsOf(manga.secondary_titles)
      RowsOf(pr) ==
        IF pr[2].k # "list" THEN EmptyBag
        ELSE LET dicts == SelectSeq(pr[2].items, LAMBDA x : x.k = "dict")
             IN  SeqToBag([j \in DOMAIN dicts |->
                   <<manga.id, pr[1],
                     DictGetOr(dicts[j], KeyTitle, JStr(<<>>)),
                     DictGet(dicts[j], <<"t", "y", "p", "e">>),
                     DictGet(dicts[j], <<"n", "o", "t", "e">>)>>])
  IN  SumBags([j \in DOMAIN pairs |-> RowsOf(pairs[j])])

\* The rows _insert_covers appends for one record.
CoverRows(manga) ==
  LET pairs == SelectSeq(ItemsOf(manga.cover), LAMBDA pr : Truthy(pr[2]))
  IN  SeqToBag([j \in DOMAIN pairs |-> <<manga.id, pairs[j][1], pairs[j][2]>>])

\* The rows _insert_manga_authors (and its four siblings) append for one
\* record: one per extracted name that is a key of the cache.
JoinRows(manga, t, cache) ==
  SetToBag({<<manga.id, cache[name]>> :
              name \in ExtractNames(NameField(manga, t)) \cap DOMAIN cache})

\* `sub in text` for strings.
Contains(text, sub) ==
  \E j \in 1..(Len(text) - Len(sub) + 1) : SubSeq(text, j, j + Len(sub) - 1) = sub

\* The link type of _insert_links.
LinkType(link) ==
  IF Contains(link, <<"f", "a", "k", "k", "u", ".", "n", "e", "t">>) THEN "store"
  ELSE IF Contains(link, <<"m", "a", "n", "g", "a", "d", "e", "x">>)
          \/ Contains(link, <<"m", "a", "n", "g", "a", "b", "a", "k", "a">>)
       THEN "reader"
  ELSE IF Contains(link, <<"a", "n", "i", "l", "i", "s", "t">>)
          \/ Contains(link, <<"m", "y", "a", "n", "i", "m", "e", "l", "i", "s", "t">>)
       THEN "database"
  ELSE "unknown"

\* The link type of import_manga_simple in simple_import.py: the store
\* and reader rules alone.
SimpleLinkType(link) ==
  IF Contains(link, <<"f", "a", "k", "k", "u", ".", "n", "e", "t">>) THEN "store"
  ELSE IF \E domain \in {<<"m", "a", "n", "g", "a", "d", "e", "x">>,
                          <<"m", "a", "n", "g", "a", "b", "a", "k", "a">>} :
            Contains(link, domain)
       THEN "reader"
  ELSE "unknown"

\* The rows _insert_links appends for one record (`manga.links or []`).
LinkRows(manga) ==
  LET links == SelectSeq(IF Truthy(manga.links) THEN IterItems(manga.links) ELSE <<>>,
                         LAMBDA x : Truthy(x) /\ x.k = "str")
  IN  SeqToBag([j \in DOMAIN links |-> <<manga.id, links[j].s, LinkType(links[j].s)>>])

\* Variant: the membership test dropped.
IdKnown_Any(related_id, manga_ids) == related_id.k \in {"num", "bool"}

\* `related_id in self.manga_ids`
IdKnown(related_id, manga_ids) ==
  related_id.k \in {"num", "bool"} /\ related_id.n \in manga_ids

\* The rows _insert_relationships appends for one record.
RelationshipRows(manga, manga_ids) ==
  LET pairs == ItemsOf(manga.relationships)
      RowsOf(pr) ==
        IF pr[2].k # "list" THEN EmptyBag
        ELSE LET ids == SelectSeq(pr[2].items, LAMBDA x : IdKnown(x, manga_ids))
             IN  SeqToBag([j \in DOMAIN ids |-> <<manga.id, ids[j].n, pr[1]>>])
  IN  SumBags([j \in DOMAIN pairs |-> RowsOf(pairs[j])])

\* json.dumps(x) if x else None
DumpsOrNone(v) == IF Truthy(v) THEN JStr(JsonDumps(v)) ELSE JNull

\* Variant: an entry is sent whatever its data, empty or not.
ExternalSourceRows_AnyData(manga, external_sources_cache) ==
  LET pairs == SelectSeq(ItemsOf(manga.source),
                 LAMBDA pr : pr[1] \in DOMAIN external_sources_cache
                             /\ pr[2].k = "dict")
  IN  [j \in DOMAIN pairs |->
        << <<manga.id, external_sources_cache[pairs[j][1]]>>,
           [external_id |-> DictGet(pairs[j][2], <<"i", "d">>),
            rating |-> DictGet(pairs[j][2], <<"r", "a", "t", "i", "n", "g">>),
            cover_url |-> DictGet(pairs[j][2], <<"c", "o", "v", "e", "r">>),
            last_updated_at |-> DictGet(pairs[j][2],
               <<"l", "a", "s", "t", "_", "u", "p", "d", "a", "t", "e", "d", "_", "a", "t">>),
            response_data |-> DumpsOrNone(DictGet(pairs[j][2],
               <<"r", "e", "s", "p", "o", "n", "s", "e">>)),
            statistics |-> DumpsOrNone(DictGet(pairs[j][2],
               <<"s", "t", "a", "t", "i", "s", "t", "i", "c", "s">>))] >>]

\* The rows _insert_external_sources appends for one record, as
\* <<key, values>> pairs in order.
ExternalSourceRows(manga, external_sources_cache) ==
  LET pairs == SelectSeq(ItemsOf(manga.source),
                 LAMBDA pr : pr[1] \in DOMAIN external_sources_cache
                             /\ Truthy(pr[2]) /\ pr[2].k = "dict")
  IN  [j \in DOMAIN pairs |->
        << <<manga.id, external_sources_cache[pairs[j][1]]>>,
           [external_id |-> DictGet(pairs[j][2], <<"i", "d">>),
            rating |-> DictGet(pairs[j][2], <<"r", "a", "t", "i", "n", "g">>),
            cover_url |-> DictGet(pairs[j][2], <<"c", "o", "v", "e", "r">>),
            last_updated_at |-> DictGet(pairs[j][2],
               <<"l", "a", "s", "t", "_", "u", "p", "d", "a", "t", "e", "d", "_", "a", "t">>),
            response_data |-> DumpsOrNone(DictGet(pairs[j][2],
               <<"r", "e", "s", "p", "o", "n", "s", "e">>)),
            statistics |-> DumpsOrNone(DictGet(pairs[j][2],
               <<"s", "t", "a", "t", "i", "s", "t", "i", "c", "s">>))] >>]

\* A statement of insert_related_data raises on the record: .items() of a
\* truthy field that is no object, a truthy link that is no string, a
\* related id that cannot be hashed, or .get() of the truthy data of a
\* known source that is no object.
RelatedDataRaises(manga, external_sources_cache) ==
  \/ \E f \in {"secondary_titles", "cover", "relationships", "source"} :
       Truthy(manga[f]) /\ manga[f].k # "dict"
  \/ Truthy(manga.links) /\ manga.links.k \in {"num", "bool"}
  \/ /\ Truthy(manga.links)
     /\ manga.links.k \in {"list", "str", "dict"}
     /\ \E x \in Range(IterItems(manga.links)) : Truthy(x) /\ x.k # "str"
  \/ \E pr \in Range(ItemsOf(manga.relationships)) :
       pr[2].k = "list" /\ \E x \in Range(pr[2].items) : x.k \in {"list", "dict"}
  \/ \E pr \in Range(ItemsOf(manga.source)) :
       pr[1] \in DOMAIN external_sources_cache /\ Truthy(pr[2]) /\ pr[2].k # "dict"

RECURSIVE UpsertExternal_KeepFirst(_, _)
\* Variant: ON CONFLICT (manga_id, source_id) DO NOTHING.
UpsertExternal_KeepFirst(tbl, rows) ==
  IF rows = <<>> THEN tbl
  ELSE UpsertExternal_KeepFirst(
         IF Head(rows)[1] \in DOMAIN tbl THEN tbl
         ELSE Put(tbl, Head(rows)[1], Head(rows)[2]),
         Tail(rows))

RECURSIVE UpsertExternal(_, _)
\* ON CONFLICT (manga_id, source_id) DO UPDATE: the latest row of a key wins.
UpsertExternal(tbl, rows) ==
  IF rows = <<>> THEN tbl
  ELSE UpsertExternal(Put(tbl, Head(rows)[1], Head(rows)[2]), Tail(rows))

RECURSIVE ConcatAll(_)
ConcatAll(ss) == IF ss = <<>> THEN <<>> ELSE Head(ss) \o ConcatAll(Tail(ss))

\* ------------------------------------------- the steps of one batch

\* The order in which insert_lookup_data visits the lookup tables.
LookupOrder == <<"authors", "artists", "genres", "tags", "publishers">>

\* insert_lookup_data(batch) on the working store st, the sequences sq and
\* the caches, for the first `upto` tables of LookupOrder; orders[t] is the
\* new_<t> list, the new names in the order the set yields them.
InsertLookupData(st, sq, caches, orders, page_size, upto) ==
  LET done == {LookupOrder[j] : j \in 1..upto}
      R(t) == InsertAndCache(st.lookup[t], sq[t], caches[t], orders[t], page_size)
  IN  [st |-> [st EXCEPT !.lookup =
                 [t \in LookupTables |-> IF t \in done THEN R(t).tbl ELSE @[t]]],
       sq |-> [t \in LookupTables |-> IF t \in done THEN R(t).sq ELSE sq[t]],
       caches |-> [t \in LookupTables |-> IF t \in done THEN R(t).cache ELSE caches[t]]]

\* The lists new_authors .. new_publishers a batch can give: one order of
\* the uncached names per table.
OrderChoices(batch, caches) ==
  LET P(t) == Perms(NewNames(batch, t, caches[t]))
  IN  {[authors |-> a, artists |-> b, genres |-> c, tags |-> d, publishers |-> e] :
         a \in P("authors"), b \in P("artists"), c \in P("genres"),
         d \in P("tags"), e \in P("publishers")}

BatchIds(batch) == {batch[j].id : j \in DOMAIN batch}

\* Variant: the id set rebuilt from each batch.
AddMangaIds_BatchOnly(manga_ids, batch) == BatchIds(batch)

\* self.manga_ids.add(manga.id) for every record of the batch.
AddMangaIds(manga_ids, batch) == manga_ids \cup BatchIds(batch)

\* The INSERT of insert_manga_data: one statement per page of the batch.
RECURSIVE UpsertPages(_, _, _)
UpsertPages(tbl, pages, now) ==
  IF pages = <<>> THEN tbl
  ELSE UpsertPages(UpsertAll(tbl, Head(pages), now), Tail(pages), now)

\* The INSERT of insert_manga_data raises: a page names an id twice, or a
\* tuple holds a text in a numeric column.
InsertMangaRejected(batch, page_size) ==
  \/ \E p \in DOMAIN Pages(batch, page_size) : UpsertRejected(Pages(batch, page_size)[p])
  \/ \E j \in DOMAIN batch : TypeRejected(MangaTuple(batch[j]))

InsertMangaData(st, batch, page_size, now) ==
  [st EXCEPT !.manga = UpsertPages(@, Pages(batch, page_size), now)]

\* A statement of insert_related_data raises on a record of the batch.
InsertRelatedRejected(batch, external_sources_cache) ==
  \E j \in DOMAIN batch : RelatedDataRaises(batch[j], external_sources_cache)

\* insert_related_data(batch): the ten statements of Phase 2.
InsertRelatedData(st, batch, caches, manga_ids, external_sources_cache) ==
  LET PerRecord(F(_)) == SumBags([j \in DOMAIN batch |-> F(batch[j])])
      Sec(m) == SecondaryTitleRows(m)
      Cov(m) == CoverRows(m)
      Lnk(m) == LinkRows(m)
      Rel(m) == RelationshipRows(m, manga_ids)
      ext == ConcatAll([j \in DOMAIN batch |->
                          ExternalSourceRows(batch[j], external_sources_cache)])
  IN  [st EXCEPT
         !.child = [t \in ChildTables |->
            InsertOrIgnore(t, @[t],
              CASE t = "manga_secondary_titles" -> PerRecord(Sec)
                [] t = "manga_covers" -> PerRecord(Cov)
                [] OTHER -> PerRecord(Lnk))],
         !.join = [t \in JoinTables |->
            InsertOrIgnore(t, @[t],
              SumBags([j \in DOMAIN batch |-> JoinRows(batch[j], t, caches[t])]))],
         !.manga_relationships = InsertRelationshipsOrIgnore(@, PerRecord(Rel)),
         !.manga_external_sources = UpsertExternal(@, ext)]

\* Variant: the commit is lost.
Commit_Lost(committed, working) == committed

\* Variant: the writes of the failed batch stay.
Rollback_KeepsWrites(committed, working) == working

\* conn.commit(): the working store becomes the committed one.
Commit(committed, working) == working

\* conn.rollback(): the committed store stays as it was.
Rollback(committed, working) == committed

\* Variant: the slice taken with its end included.
Batch_EndIncluded(manga_list, i, size) ==
  SubSeq(manga_list, i + 1, Min(i + size + 1, Len(manga_list)))

\* batch = manga_list[i:i + batch_size]
Batch(manga_list, i, size) == SubSeq(manga_list, i + 1, Min(i + size, Len(manga_list)))

\* batch_num = i // batch_size + 1
BatchNum(i, size) == i \div size + 1

\* Variant: the related data of a batch written right after its entities.
AfterPhase1Commit_Inline(i, size, n) == [pc |-> "p2_begin", i |-> i]

\* Where import_file goes after the commit of a Phase 1 batch: the next
\* index of the first loop, or the start of the second loop.
AfterPhase1Commit(i, size, n) ==
  IF i + size < n THEN [pc |-> "p1_begin", i |-> i + size]
  ELSE [pc |-> "p2_begin", i |-> 0]

\* Variant: import_file returns after the first Phase 2 batch.
AfterPhase2Commit_ReturnEarly(i, size, n) == [pc |-> "done", i |-> i]

\* Where it goes after the commit of a Phase 2 batch.
AfterPhase2Commit(i, size, n) ==
  IF i + size < n THEN [pc |-> "p2_begin", i |-> i + size]
  ELSE [pc |-> "done", i |-> i]

\* Variant: the id set loaded from the store like the caches.
NewImporter_PreloadIds(store) ==
  [manga_ids |-> DOMAIN store.manga,
   caches |-> [t \in LookupTables |-> store.lookup[t]],
   external_sources_cache |-> store.external_sources]

\* MangaBulkImporter(...) followed by load_caches(): what a new process
\* holds before import_file.
NewImporter(store) ==
  [manga_ids |-> {},
   caches |-> [t \in LookupTables |-> store.lookup[t]],
   external_sources_cache |-> store.external_sources]

\* ------------------------------------------------------- the line parser

\* The fields of MangaData, in the order of the dataclass.
MangaFields ==
  {"id", "state", "merged_with", "title", "native_title", "romanized_title",
   "secondary_titles", "cover", "authors", "artists", "description", "year",
   "status", "is_licensed", "has_anime", "anime", "content_rating", "type",
   "rating", "final_volume", "final_chapter", "total_chapters", "links",
   "publishers", "relationships", "genres", "tags", "last_updated_at",
   "source"}

\* The text of a field name: the key data.get() is called with.
FieldKey(f) ==
  CASE f = "id" -> <<"i", "d">>
    [] f = "state" -> <<"s", "t", "a", "t", "e">>
    [] f = "merged_with" -> <<"m", "e", "r", "g", "e", "d", "_", "w", "i", "t", "h">>
    [] f = "title" -> <<"t", "i", "t", "l", "e">>
    [] f = "native_title" -> <<"n", "a", "t", "i", "v", "e", "_", "t", "i", "t", "l", "e">>
    [] f = "romanized_title" -> <<"r", "o", "m", "a", "n", "i", "z", "e", "d", "_", "t", "i", "t", "l", "e">>
    [] f = "secondary_titles" -> <<"s", "e", "c", "o", "n", "d", "a", "r", "y", "_", "t", "i", "t", "l", "e", "s">>
    [] f = "cover" -> <<"c", "o", "v", "e", "r">>
    [] f = "authors" -> <<"a", "u", "t", "h", "o", "r", "s">>
    [] f = "artists" -> <<"a", "r", "t", "i", "s", "t", "s">>
    [] f = "description" -> <<"d", "e", "s", "c", "r", "i", "p", "t", "i", "o", "n">>
    [] f = "year" -> <<"y", "e", "a", "r">>
    [] f = "status" -> <<"s", "t", "a", "t", "u", "s">>
    [] f = "is_licensed" -> <<"i", "s", "_", "l", "i", "c", "e", "n", "s", "e", "d">>
    [] f = "has_anime" -> <<"h", "a", "s", "_", "a", "n", "i", "m", "e">>
    [] f = "anime" -> <<"a", "n", "i", "m", "e">>
    [] f = "content_rating" -> <<"c", "o", "n", "t", "e", "n", "t", "_", "r", "a", "t", "i", "n", "g">>
    [] f = "type" -> <<"t", "y", "p", "e">>
    [] f = "rating" -> <<"r", "a", "t", "i", "n", "g">>
    [] f = "final_volume" -> <<"f", "i", "n", "a", "l", "_", "v", "o", "l", "u", "m", "e">>
    [] f = "final_chapter" -> <<"f", "i", "n", "a", "l", "_", "c", "h", "a", "p", "t", "e", "r">>
    [] f = "total_chapters" -> <<"t", "o", "t", "a", "l", "_", "c", "h", "a", "p", "t", "e", "r", "s">>
    [] f = "links" -> <<"l", "i", "n", "k", "s">>
    [] f = "publishers" -> <<"p", "u", "b", "l", "i", "s", "h", "e", "r", "s">>
    [] f = "relationships" -> <<"r", "e", "l", "a", "t", "i", "o", "n", "s", "h", "i", "p", "s">>
    [] f = "genres" -> <<"g", "e", "n", "r", "e", "s">>
    [] f = "tags" -> <<"t", "a", "g", "s">>
    [] f = "last_updated_at" -> <<"l", "a", "s", "t", "_", "u", "p", "d", "a", "t", "e", "d", "_", "a", "t">>
    [] f = "source" -> <<"s", "o", "u", "r", "c", "e">>

\* datetime.now().isoformat(), the default of last_updated_at.
NowIso == JStr(<<"n", "o", "w">>)

\* The default data.get(key, default) is given for a field: None unless
\* _parse_manga_json names one.
FieldDefault(f) ==
  CASE f = "state" -> JStr(<<"a", "c", "t", "i", "v", "e">>)
    [] f = "title" -> JStr(<<>>)
    [] f = "secondary_titles" -> JDict(<<>>)
    [] f = "cover" -> JDict(<<>>)
    [] f = "authors" -> JList(<<>>)
    [] f = "artists" -> JList(<<>>)
    [] f = "is_licensed" -> JBool(FALSE)
    [] f = "has_anime" -> JBool(FALSE)
    [] f = "type" -> JStr(<<"m", "a", "n", "g", "a">>)
    [] f = "links" -> JList(<<>>)
    [] f = "relationships" -> JDict(<<>>)
    [] f = "genres" -> JList(<<>>)
    [] f = "last_updated_at" -> NowIso
    [] f = "source" -> JDict(<<>>)
    [] OTHER -> JNull

RECURSIVE DigitsValue(_, _)
\* The number a text of decimal digits writes; acc is the value so far.
DigitsValue(text, acc) ==
  IF text = <<>> THEN acc
  ELSE DigitsValue(Tail(text),
         10 * acc + (CHOOSE d \in 0..9 : Digit(d) = Head(text)))

\* Variant: the text is not stripped before it is read as a number.
FloatOrNone_NoStrip(text) ==
  IF text # <<>> /\ \A j \in DOMAIN text : \E d \in 0..9 : Digit(d) = text[j]
  THEN JNum(DigitsValue(text, 0))
  ELSE JNull

\* float(text) of the final_chapter conversion, for the texts the model
\* holds: surrounding blanks are dropped, a run of decimal digits is its
\* number, any other text raises ValueError and the field becomes None.
FloatOrNone(text) ==
  LET t == Strip(text)
  IN  IF t # <<>> /\ \A j \in DOMAIN t : \E d \in 0..9 : Digit(d) = t[j]
      THEN JNum(DigitsValue(t, 0))
      ELSE JNull

\* _parse_manga_json(data) for a decoded object: every field by data.get
\* with its default, then final_chapter converted when it is a string.
ParseMangaJson(data) ==
  [f \in MangaFields |->
     LET v == DictGetOr(data, FieldKey(f), FieldDefault(f))
     IN  IF f = "final_chapter" /\ v.k = "str" THEN FloatOrNone(v.s) ELSE v]

\* The texts of the lines a file is made of, each with its line end.
RawEmpty == <<"\n">>

RawBlank == <<" ", "\t", "\n">>

RawObject == <<"{", "\"", "i", "d", "\"", ":", "1", "}", "\n">>

RawPadded == <<" ", " ", "{", "\"", "i", "d", "\"", ":", "2", ",", "\"", "f", "i", "n", "a", "l", "_", "c", "h", "a", "p", "t", "e", "r", "\"", ":", "\"", " ", "7", "\"", "}", " ", "\n">>

RawArray == <<"[", "1", "]", "\n">>

RawBroken == <<"{", "\"", "i", "d", "\"", ":", "\n">>

RawNotANumber == <<"{", "\"", "i", "d", "\"", ":", "3", ",", "\"", "f", "i", "n", "a", "l", "_", "c", "h", "a", "p", "t", "e", "r", "\"", ":", "\"", "N", "/", "A", "\"", "}", "\n">>

RawLines ==
  {RawEmpty, RawBlank, RawObject, RawPadded, RawNotANumber, RawArray, RawBroken}

\* json.loads(text) on the texts above once stripped: the decoded value,
\* or ok = FALSE for JSONDecodeError.
JsonLoads(text) ==
  CASE text = Strip(RawObject) ->
         [ok |-> TRUE, value |-> JDict(<< <<FieldKey("id"), JNum(1)>> >>)]
    [] text = Strip(RawPadded) ->
         [ok |-> TRUE,
          value |-> JDict(<< <<FieldKey("id"), JNum(2)>>,
                             <<FieldKey("final_chapter"), JStr(<<" ", "7">>)>> >>)]
    [] text = Strip(RawNotANumber) ->
         [ok |-> TRUE,
          value |-> JDict(<< <<FieldKey("id"), JNum(3)>>,
                             <<FieldKey("final_chapter"), JStr(<<"N", "/", "A">>)>> >>)]
    [] text = Strip(RawArray) ->
         [ok |-> TRUE, value |-> JList(<<JNum(1)>>)]
    [] OTHER -> [ok |-> FALSE, value |-> JNull]

\* A line of the file: its text, or bytes that are not UTF-8, which the
\* iteration over the file raises UnicodeDecodeError on.
FileLines ==
  {[readable |-> TRUE, raw |-> r] : r \in RawLines}
  \cup {[readable |-> FALSE, raw |-> <<>>]}

\* The files parse_jsonl_file is tried on.
LineFiles == UNION {[1..n -> FileLines] : n \in 0..MaxLines}

\* ------------------------------------------------------------- inputs

\* A MangaData whose scalar columns all hold the text v.
MkManga(id, v) ==
  [id |-> id, state |-> v, title |-> v, native_title |-> v,
   romanized_title |-> v, description |-> v, year |-> v, status |-> v,
   is_licensed |-> v, has_anime |-> v, anime |-> JNull, content_rating |-> v,
   type |-> v, rating |-> v, final_volume |-> v, final_chapter |-> v,
   total_chapters |-> v, last_updated_at |-> v,
   secondary_titles |-> JDict(<<>>), cover |-> JDict(<<>>),
   authors |-> JList(<<>>), artists |-> JList(<<>>), genres |-> JList(<<>>),
   tags |-> JNull, publishers |-> JNull, links |-> JList(<<>>),
   relationships |-> JDict(<<>>), source |-> JDict(<<>>)]

Ann == <<"A", "n", "n">>

Bob == <<"B", "o", "b">>

Sequel == <<"s", "e", "q", "u", "e", "l">>

Prequel == <<"p", "r", "e", "q", "u", "e", "l">>

Anilist == <<"a", "n", "i", "l", "i", "s", "t">>

CoverUrl == JStr(<<"u", "1">>)

\* The records an input file is made of.  Record 1 points at record 2 and
\* at an id no record carries; record 2 points back and spells one author
\* with surrounding blanks and one as an object; record 3 carries the id of
\* record 1 with other values.
Pool ==
  << [MkManga(1, "a") EXCEPT
        !.authors = JList(<<JStr(Bob)>>),
        !.genres = JList(<<JStr(<<"G">>)>>),
        !.cover = JDict(<< <<<<"d">>, CoverUrl>>, <<<<"e">>, JStr(<<>>)>> >>),
        !.secondary_titles = JDict(<< <<<<"e", "n">>,
             JList(<<JDict(<< <<KeyTitle, JStr(<<"t">>)>> >>)>>)>> >>),
        !.links = JList(<<JStr(<<"m", "a", "n", "g", "a", "d", "e", "x">>)>>),
        !.relationships = JDict(<< <<Sequel, JList(<<JNum(2), JNum(3)>>)>> >>),
        !.source = JDict(<< <<Anilist, JDict(<< <<<<"i", "d">>, JNum(7)>> >>)>>,
                            <<<<"m", "a", "l">>, JDict(<< <<<<"i", "d">>, JNum(8)>> >>)>> >>)],
     [MkManga(2, "a") EXCEPT
        !.anime = JDict(<< <<<<"i", "d">>, JNum(5)>> >>),
        !.authors = JList(<<JStr(<<" ">> \o Bob \o <<" ">>),
                            JDict(<< <<KeyName, JStr(Ann)>> >>)>>),
        !.artists = JList(<<JStr(Ann)>>),
        !.tags = JList(<<JStr(<<"T">>)>>),
        !.relationships = JDict(<< <<Prequel, JList(<<JNum(1)>>)>> >>)],
     [MkManga(1, "b") EXCEPT
        !.title = NULL,
        !.authors = JList(<<JStr(Ann)>>),
        !.publishers = JList(<<JStr(<<"P">>)>>),
        !.cover = JDict(<< <<<<"d">>, CoverUrl>> >>),
        !.relationships = JDict(<< <<Sequel, JList(<<JNum(2)>>)>> >>),
        !.source = JDict(<< <<Anilist, JDict(<< <<<<"i", "d">>, JNum(9)>> >>)>> >>)] >>

\* The input files: every sequence of at most MaxFileLen records of the
\* pool, each named by its index.
Files == UNION {[1..n -> DOMAIN Pool] : n \in 0..MaxFileLen}

\* The end of _parse_manga_json on a record as decoded: a final_chapter
\* that is a text float() rejects becomes None, every other field stays.
CoerceFinalChapter(manga) ==
  [manga EXCEPT !.final_chapter = IF @ = NonNumeric THEN NULL ELSE @]

\* Records as decoded from lines with a fault of their own, after a
\* well-formed one: a text that is no number in one numeric field; a
\* source map with a source the store defines and one it does not; a
\* known source with empty data and an unknown one with a text as data;
\* a known source with a text as data.  Their ids are their own.
FaultyRecords ==
  << MkManga(4, "a"),
     [MkManga(5, "a") EXCEPT !.final_chapter = NonNumeric],
     [MkManga(6, "a") EXCEPT !.year = NonNumeric],
     [MkManga(7, "a") EXCEPT !.rating = NonNumeric],
     [MkManga(8, "a") EXCEPT !.final_volume = NonNumeric],
     [MkManga(9, "a") EXCEPT
        !.source = JDict(<< <<Anilist, JDict(<< <<<<"i", "d">>, JNum(7)>> >>)>>,
                            <<<<"m", "a", "l">>, JDict(<< <<<<"i", "d">>, JNum(8)>> >>)>> >>)],
     [MkManga(10, "a") EXCEPT
        !.source = JDict(<< <<Anilist, JDict(<<>>)>>,
                            <<<<"m", "a", "l">>, JStr(<<"x">>)>> >>)],
     [MkManga(11, "a") EXCEPT
        !.source = JDict(<< <<Anilist, JStr(<<"x">>)>> >>)] >>

\* Every record the model holds: the pool, then the records with a
\* fault as _parse_manga_json returns them.
Records ==
  Pool \o [j \in DOMAIN FaultyRecords |-> CoerceFinalChapter(FaultyRecords[j])]

\* The files made of those records.
FaultyFiles ==
  UNION {[1..n -> (Len(Pool) + 1)..Len(Records)] : n \in 0..MaxFileLen}

\* manga_list, as parse_jsonl_file returns it for file f.
MangaList(f) == [j \in DOMAIN f |-> Records[f[j]]]

\* A store with the source definitions alone.
SeededStore == [EmptyStore EXCEPT !.external_sources = Put(<<>>, Anilist, 1)]

\* The store an earlier import left: entities 1 and 3, author Bob, and the
\* rows that hang on them.
UsedStore ==
  [SeededStore EXCEPT
     !.manga = Put(Put(<<>>, 1, InsertedRow(MangaTuple(MkManga(1, "o")), 0)),
                   3, InsertedRow(MangaTuple(MkManga(3, "o")), 0)),
     !.lookup = [@ EXCEPT !["authors"] = Put(<<>>, Bob, 1)],
     !.join = [@ EXCEPT !["authors"] = SetToBag({<<1, 1>>, <<3, 1>>})],
     !.child = [@ EXCEPT !["manga_covers"] = SetToBag({<<3, <<"d">>, CoverUrl>>})],
     !.manga_relationships = SetToBag({<<3, 1, Prequel>>}),
     !.manga_external_sources =
        Put(<<>>, <<1, 1>>,
            [external_id |-> JNum(6), rating |-> JNull, cover_url |-> JNull,
             last_updated_at |-> JNull, response_data |-> JNull,
             statistics |-> JNull])]

InitialStores == {SeededStore, UsedStore}

\* The value of each table's id sequence in a store: the largest id given.
SequencesOf(store) ==
  [t \in LookupTables |->
     LET ids == {store.lookup[t][x] : x \in DOMAIN store.lookup[t]}
     IN  IF ids = {} THEN 0 ELSE CHOOSE m \in ids : \A k \in ids : k <= m]

\* -------------------------------------------------------------- state

VARIABLES
  file,                    \* the input file, as indices into Pool
  batch_size,              \* the --batch-size option
  db,                      \* the committed store
  tx,                      \* the store as the open transaction sees it
  in_tx,                   \* a batch transaction is open
  seq,                     \* the id sequence of each lookup table
  manga_ids,               \* self.manga_ids
  caches,                  \* self.authors_cache .. self.publishers_cache
  external_sources_cache,  \* self.external_sources_cache
  pc,                      \* where main() stands
  i,                       \* the loop index of import_file
  run,                     \* invocations of main() so far
  db0,                     \* history: the store before the first run
  last_commit,             \* history: what the latest commit wrote
  log,                     \* history: <<event, phase, batch_num>> of this run
  results,                 \* history: [outcome, db] of every ended run
  foreign,                 \* lookup rows other writers committed meanwhile
  lines,                   \* the lines of the file parse_jsonl_file is given
  file_exists,             \* whether open() finds that file
  line_num,                \* line_num of parse_jsonl_file
  parsed,                  \* manga_list of parse_jsonl_file
  errors,                  \* the logger.error calls of parse_jsonl_file
  ppc,                     \* where parse_jsonl_file stands
  field_value,             \* data_list of _extract_names
  item_pos,                \* items the for statement of _extract_names took
  extracted,               \* names of _extract_names
  npc,                     \* where _extract_names stands
  link_list,               \* manga.links of the record _insert_links is at
  link_pos,                \* links the inner for statement took
  link_data,               \* data of _insert_links, the id column aside
  lpc                      \* where _insert_links stands

\* The state of parse_jsonl_file.
pvars == <<lines, file_exists, line_num, parsed, errors, ppc>>

\* The state of _extract_names.
nvars == <<field_value, item_pos, extracted, npc>>

\* The state of _insert_links.
lvars == <<link_list, link_pos, link_data, lpc>>

\* The state of the two functions run on their own.
fvars == <<nvars, lvars>>

vars ==
  <<file, batch_size, db, tx, in_tx, seq, manga_ids, caches,
    external_sources_cache, pc, i, run, db0, last_commit, log, results,
    foreign, pvars, fvars>>

manga_list == MangaList(file)

batch == Batch(manga_list, i, batch_size)

\* The clock of the store: one tick per run, 0 before the first.
Now == run

\* parse_jsonl_file is not under observation: the parsed records are
\* given by `file`.
NoParse ==
  /\ lines = <<>>
  /\ file_exists = TRUE
  /\ line_num = 0
  /\ parsed = <<>>
  /\ errors = <<>>
  /\ ppc = "idle"

\* _extract_names is not under observation.
NoNames ==
  /\ field_value = JNull
  /\ item_pos = 0
  /\ extracted = {}
  /\ npc = "idle"

\* _insert_links is not under observation.
NoLinks ==
  /\ link_list = JNull
  /\ link_pos = 0
  /\ link_data = <<>>
  /\ lpc = "idle"

Init ==
  /\ file \in Files
  /\ batch_size \in 1..MaxBatchSize
  /\ db \in InitialStores
  /\ tx = db
  /\ in_tx = FALSE
  /\ seq = SequencesOf(db)
  /\ manga_ids = {}
  /\ caches = [t \in LookupTables |-> <<>>]
  /\ external_sources_cache = <<>>
  /\ pc = "idle"
  /\ i = 0
  /\ run = 0
  /\ db0 = db
  /\ last_commit = db
  /\ log = <<>>
  /\ results = <<>>
  /\ foreign = 0
  /\ NoParse
  /\ NoNames
  /\ NoLinks

Ended(outcome, store) == Append(results, [outcome |-> outcome, db |-> store])

\* main(): a new process connects, loads the caches and parses the file;
\* import_file returns at once when the file holds no record.
Main ==
  /\ pc \in {"idle", "done", "failed"}
  /\ run < MaxRuns
  /\ run' = run + 1
  /\ manga_ids' = NewImporter(db).manga_ids
  /\ caches' = NewImporter(db).caches
  /\ external_sources_cache' = NewImporter(db).external_sources_cache
  /\ i' = 0
  /\ log' = <<>>
  /\ last_commit' = db
  /\ IF manga_list = <<>>
     THEN pc' = "done" /\ results' = Ended("ok", db)
     ELSE pc' = "p1_begin" /\ results' = results
  /\ UNCHANGED <<fvars, pvars, foreign, file, batch_size, db, tx, in_tx, seq, db0>>

\* cur.execute("BEGIN") of either loop.
Begin(phase, here, next) ==
  /\ pc = here
  /\ pc' = next
  /\ in_tx' = TRUE
  /\ tx' = db
  /\ log' = Append(log, <<"begin", phase, BatchNum(i, batch_size)>>)
  /\ UNCHANGED <<fvars, pvars, foreign, file, batch_size, db, seq, manga_ids, caches,
                 external_sources_cache, i, run, db0, last_commit, results>>

Phase1Begin == Begin(1, "p1_begin", "p1_lookup")

Phase2Begin == Begin(2, "p2_begin", "p2_related")

\* self.insert_lookup_data(batch)
Phase1Lookup ==
  /\ pc = "p1_lookup"
  /\ \E orders \in OrderChoices(batch, caches) :
       LET r == InsertLookupData(tx, seq, caches, orders, batch_size, Len(LookupOrder))
       IN  /\ tx' = r.st
           /\ seq' = r.sq
           /\ caches' = r.caches
  /\ pc' = "p1_manga"
  /\ UNCHANGED <<fvars, pvars, foreign, file, batch_size, db, in_tx, manga_ids, external_sources_cache,
                 i, run, db0, last_commit, log, results>>

\* self.insert_manga_data(batch)
Phase1Manga ==
  /\ pc = "p1_manga"
  /\ ~InsertMangaRejected(batch, batch_size)
  /\ manga_ids' = AddMangaIds(manga_ids, batch)
  /\ tx' = InsertMangaData(tx, batch, batch_size, Now)
  /\ pc' = "p1_commit"
  /\ UNCHANGED <<fvars, pvars, foreign, file, batch_size, db, in_tx, seq, caches, external_sources_cache,
                 i, run, db0, last_commit, log, results>>

\* self.insert_related_data(batch)
Phase2Related ==
  /\ pc = "p2_related"
  /\ ~InsertRelatedRejected(batch, external_sources_cache)
  /\ tx' = InsertRelatedData(tx, batch, caches, manga_ids, external_sources_cache)
  /\ pc' = "p2_commit"
  /\ UNCHANGED <<fvars, pvars, foreign, file, batch_size, db, in_tx, seq, manga_ids, caches,
                 external_sources_cache, i, run, db0, last_commit, log, results>>

\* self.conn.commit() of a Phase 1 batch, and the step of the first loop.
Phase1Commit ==
  /\ pc = "p1_commit"
  /\ db' = Commit(db, tx)
  /\ tx' = db'
  /\ in_tx' = FALSE
  /\ last_commit' = tx
  /\ log' = Append(log, <<"commit", 1, BatchNum(i, batch_size)>>)
  /\ pc' = AfterPhase1Commit(i, batch_size, Len(manga_list)).pc
  /\ i' = AfterPhase1Commit(i, batch_size, Len(manga_list)).i
  /\ UNCHANGED <<fvars, pvars, foreign, file, batch_size, seq, manga_ids, caches, external_sources_cache,
                 run, db0, results>>

\* self.conn.commit() of a Phase 2 batch, and the step of the second loop;
\* after the last batch import_file returns and main() exits.
Phase2Commit ==
  /\ pc = "p2_commit"
  /\ db' = Commit(db, tx)
  /\ tx' = db'
  /\ in_tx' = FALSE
  /\ last_commit' = tx
  /\ log' = Append(log, <<"commit", 2, BatchNum(i, batch_size)>>)
  /\ pc' = AfterPhase2Commit(i, batch_size, Len(manga_list)).pc
  /\ i' = AfterPhase2Commit(i, batch_size, Len(manga_list)).i
  /\ results' = IF pc' = "done" THEN Ended("ok", db') ELSE results
  /\ UNCHANGED <<fvars, pvars, foreign, file, batch_size, seq, manga_ids, caches, external_sources_cache,
                 run, db0>>

\* The except clause of either loop: rollback, log, raise.  main() logs
\* the error and exits with status 1.
Abort(phase) ==
  /\ db' = Rollback(db, tx)
  /\ tx' = db'
  /\ in_tx' = FALSE
  /\ pc' = "failed"
  /\ log' = Append(log, <<"fail", phase, BatchNum(i, batch_size)>>)
  /\ results' = Ended("failed", db')
  /\ UNCHANGED <<fvars, pvars, foreign, file, batch_size, i, run, db0, last_commit>>

\* A statement of insert_lookup_data raises: the tables before it are
\* inserted and cached, the INSERT of table LookupOrder[k] fails.
Phase1LookupFails ==
  /\ pc = "p1_lookup"
  /\ \E orders \in OrderChoices(batch, caches), k \in DOMAIN LookupOrder :
       /\ orders[LookupOrder[k]] # <<>>
       /\ LET r == InsertLookupData(tx, seq, caches, orders, batch_size, k - 1)
          IN  /\ seq' = r.sq
              /\ caches' = r.caches
  /\ Abort(1)
  /\ UNCHANGED <<manga_ids, external_sources_cache>>

\* The INSERT of insert_manga_data raises, after the ids of the batch were
\* added to self.manga_ids.
Phase1MangaFails ==
  /\ pc = "p1_manga"
  /\ manga_ids' = AddMangaIds(manga_ids, batch)
  /\ Abort(1)
  /\ UNCHANGED <<seq, caches, external_sources_cache>>

\* BEGIN or COMMIT of a Phase 1 batch raises.
Phase1TxFails ==
  /\ pc \in {"p1_begin", "p1_commit"}
  /\ Abort(1)
  /\ UNCHANGED <<seq, manga_ids, caches, external_sources_cache>>

\* BEGIN, a statement of insert_related_data, or COMMIT of a Phase 2
\* batch raises.
Phase2Fails ==
  /\ pc \in {"p2_begin", "p2_related", "p2_commit"}
  /\ Abort(2)
  /\ UNCHANGED <<seq, manga_ids, caches, external_sources_cache>>

Next ==
  \/ Main
  \/ Phase1Begin
  \/ Phase1Lookup
  \/ Phase1Manga
  \/ Phase1Commit
  \/ Phase2Begin
  \/ Phase2Related
  \/ Phase2Commit
  \/ Phase1LookupFails
  \/ Phase1MangaFails
  \/ Phase1TxFails
  \/ Phase2Fails

Spec == Init /\ [][Next]_vars

\* ------------------------------------- one invocation in its environment

\* main() started once.
MainOnce == run = 0 /\ Main

\* main() ends before import_file: what the except clause of main() leaves.
EndsEarly(event) ==
  /\ pc = "idle"
  /\ run = 0
  /\ run' = 1
  /\ pc' = "failed"
  /\ log' = <<<<event, 0, 0>>>>
  /\ results' = Ended("failed", db)
  /\ UNCHANGED <<fvars, pvars, foreign, file, batch_size, db, tx, in_tx, seq, manga_ids,
                 external_sources_cache, i, db0, last_commit>>

\* importer.connect() raises: no cache is loaded, no file is read.
ConnectFails ==
  /\ EndsEarly("no_connection")
  /\ UNCHANGED caches

\* open() raises FileNotFoundError in parse_jsonl_file, after load_caches;
\* import_file logs and raises again.
FileNotFound ==
  /\ EndsEarly("no_file")
  /\ caches' = NewImporter(db).caches

\* Another writer commits a row of a lookup table under a name of the
\* file, after the caches were loaded and before the statements of the
\* batch at hand: the row is in no cache, and READ COMMITTED shows it to
\* every later statement of the import.
OtherWriter ==
  /\ pc \in {"p1_begin", "p1_lookup"}
  /\ foreign < MaxForeign
  /\ \E t \in LookupTables : \E n \in BatchNames(manga_list, t) \ DOMAIN tx.lookup[t] :
       /\ db' = [db EXCEPT !.lookup[t] = Put(@, n, seq[t] + 1)]
       /\ tx' = [tx EXCEPT !.lookup[t] = Put(@, n, seq[t] + 1)]
       /\ seq' = [seq EXCEPT ![t] = @ + 1]
  /\ foreign' = foreign + 1
  /\ UNCHANGED <<fvars, pvars, file, batch_size, in_tx, manga_ids, caches,
                 external_sources_cache, pc, i, run, db0, last_commit, log, results>>

NextEnv ==
  \/ MainOnce
  \/ ConnectFails
  \/ FileNotFound
  \/ OtherWriter
  \/ Phase1Begin
  \/ Phase1Lookup
  \/ Phase1Manga
  \/ Phase1Commit
  \/ Phase2Begin
  \/ Phase2Related
  \/ Phase2Commit
  \/ Phase1LookupFails
  \/ Phase1MangaFails
  \/ Phase1TxFails
  \/ Phase2Fails

\* One invocation of main(), with the faults of its start and with other
\* writers on the lookup tables.
SpecEnv == Init /\ [][NextEnv]_vars

\* ------------------------------- the store as the only source of faults

InitFaulty ==
  /\ file \in FaultyFiles
  /\ batch_size \in 1..MaxBatchSize
  /\ db \in InitialStores
  /\ tx = db
  /\ in_tx = FALSE
  /\ seq = SequencesOf(db)
  /\ manga_ids = {}
  /\ caches = [t \in LookupTables |-> <<>>]
  /\ external_sources_cache = <<>>
  /\ pc = "idle"
  /\ i = 0
  /\ run = 0
  /\ db0 = db
  /\ last_commit = db
  /\ log = <<>>
  /\ results = <<>>
  /\ foreign = 0
  /\ NoParse
  /\ NoNames
  /\ NoLinks

\* The INSERT of insert_manga_data raises because the store rejects it.
Phase1MangaRejected ==
  /\ InsertMangaRejected(batch, batch_size)
  /\ Phase1MangaFails

\* A statement of insert_related_data raises on a record of the batch.
Phase2RelatedRejected ==
  /\ pc = "p2_related"
  /\ InsertRelatedRejected(batch, external_sources_cache)
  /\ Phase2Fails

NextFaulty ==
  \/ MainOnce
  \/ Phase1Begin
  \/ Phase1Lookup
  \/ Phase1Manga
  \/ Phase1MangaRejected
  \/ Phase1Commit
  \/ Phase2Begin
  \/ Phase2Related
  \/ Phase2RelatedRejected
  \/ Phase2Commit

\* One invocation of main() on a file of records with faults, with a
\* connection that fails only when a statement raises on the data.
SpecFaulty == InitFaulty /\ [][NextFaulty]_vars

\* ---------------------------------------------- parse_jsonl_file alone

\* The state of the import.
ivars ==
  <<file, batch_size, db, tx, in_tx, seq, manga_ids, caches,
    external_sources_cache, pc, i, run, db0, last_commit, log, results, foreign>>

\* The importer as constructed, before connect(): nothing of the import
\* has happened.
NoImport ==
  /\ file = <<>>
  /\ batch_size = 1
  /\ db = EmptyStore
  /\ tx = EmptyStore
  /\ in_tx = FALSE
  /\ seq = SequencesOf(EmptyStore)
  /\ manga_ids = {}
  /\ caches = [t \in LookupTables |-> <<>>]
  /\ external_sources_cache = <<>>
  /\ pc = "idle"
  /\ i = 0
  /\ run = 0
  /\ db0 = EmptyStore
  /\ last_commit = EmptyStore
  /\ log = <<>>
  /\ results = <<>>
  /\ foreign = 0

InitParse ==
  /\ NoImport
  /\ NoNames
  /\ NoLinks
  /\ lines \in LineFiles
  /\ file_exists \in BOOLEAN
  /\ line_num = 0
  /\ parsed = <<>>
  /\ errors = <<>>
  /\ ppc = "start"

\* The line the for statement is about to yield.
NextLine == lines[line_num + 1]

\* line = line.strip()
Stripped == Strip(NextLine.raw)

\* The for statement yields a line.
Yields ==
  /\ ppc = "reading"
  /\ line_num < Len(lines)
  /\ NextLine.readable
  /\ line_num' = line_num + 1

\* open(file_path, 'r', encoding='utf-8') succeeds.
ParseOpen ==
  /\ ppc = "start"
  /\ file_exists
  /\ ppc' = "reading"
  /\ UNCHANGED <<fvars, ivars, lines, file_exists, line_num, parsed, errors>>

\* open() raises FileNotFoundError: logged and raised again.
ParseOpenFails ==
  /\ ppc = "start"
  /\ ~file_exists
  /\ errors' = Append(errors, <<0, "File not found">>)
  /\ ppc' = "raised"
  /\ UNCHANGED <<fvars, ivars, lines, file_exists, line_num, parsed>>

\* The iteration raises while reading the next line, outside the try of
\* the loop body: the outer handler logs and raises again.
ParseReadFails ==
  /\ ppc = "reading"
  /\ line_num < Len(lines)
  /\ ~NextLine.readable
  /\ errors' = Append(errors, <<0, "Error reading file">>)
  /\ ppc' = "raised"
  /\ UNCHANGED <<fvars, ivars, lines, file_exists, line_num, parsed>>

\* `if not line: continue`
ParseBlank ==
  /\ Yields
  /\ Stripped = <<>>
  /\ UNCHANGED <<fvars, ivars, lines, file_exists, parsed, errors, ppc>>

\* json.loads and _parse_manga_json succeed: the record is appended.
ParseRecord ==
  /\ Yields
  /\ Stripped # <<>>
  /\ JsonLoads(Stripped).ok
  /\ JsonLoads(Stripped).value.k = "dict"
  /\ parsed' = Append(parsed, ParseMangaJson(JsonLoads(Stripped).value))
  /\ UNCHANGED <<fvars, ivars, lines, file_exists, errors, ppc>>

\* json.loads raises JSONDecodeError: logged with the line number, skipped.
ParseDecodeError ==
  /\ Yields
  /\ Stripped # <<>>
  /\ ~JsonLoads(Stripped).ok
  /\ errors' = Append(errors, <<line_num + 1, "JSON decode error">>)
  /\ UNCHANGED <<fvars, ivars, lines, file_exists, parsed, ppc>>

\* The line decodes to a value without get(): _parse_manga_json raises
\* AttributeError, `except Exception` logs the line number and skips.
ParseOtherError ==
  /\ Yields
  /\ Stripped # <<>>
  /\ JsonLoads(Stripped).ok
  /\ JsonLoads(Stripped).value.k # "dict"
  /\ errors' = Append(errors, <<line_num + 1, "Error parsing line">>)
  /\ UNCHANGED <<fvars, ivars, lines, file_exists, parsed, ppc>>

\* The file is exhausted: manga_list is returned.
ParseReturn ==
  /\ ppc = "reading"
  /\ line_num = Len(lines)
  /\ ppc' = "returned"
  /\ UNCHANGED <<fvars, ivars, lines, file_exists, line_num, parsed, errors>>

NextParse ==
  \/ ParseOpen
  \/ ParseOpenFails
  \/ ParseReadFails
  \/ ParseBlank
  \/ ParseRecord
  \/ ParseDecodeError
  \/ ParseOtherError
  \/ ParseReturn

\* parse_jsonl_file on every file of LineFiles, present or not.
SpecParse == InitParse /\ [][NextParse]_vars

\* ------------------------------------------------ _extract_names alone

\* Objects as elements of a name field: keys of the priority list with
\* strings, an empty string, null, a number and a list as values, an
\* object with none of the keys, and the empty object.
NameObjects ==
  { JDict(<< <<KeyName, JStr(Ann)>>, <<KeyTitle, JStr(Bob)>> >>),
    JDict(<< <<KeyTitle, JStr(Bob)>>, <<KeyNameCap, JStr(<<" ">> \o Ann)>> >>),
    JDict(<< <<KeyName, JStr(<<>>)>>, <<KeyTitleCap, JStr(Bob)>> >>),
    JDict(<< <<KeyName, JNull>>, <<KeyTitle, JStr(Bob)>> >>),
    JDict(<< <<KeyName, JNum(5)>>, <<KeyTitle, JStr(Bob)>> >>),
    JDict(<< <<KeyNameCap, JList(<<JStr(Ann)>>)>>, <<KeyTitleCap, JStr(Bob)>> >>),
    JDict(<< <<<<"i", "d">>, JNum(1)>> >>),
    JDict(<<>>) }

\* The elements a name field given as a list is made of.
NameItems ==
  { JStr(Ann), JStr(<<" ">> \o Bob \o <<" ">>), JStr(<<" ">>), JStr(<<>>),
    JNull, JNum(5), JBool(FALSE), JList(<<JStr(Ann), JNull>>) }
  \cup NameObjects

\* The values of a name field: absent, a scalar, one string, one object,
\* a list of elements.
FieldValues ==
  { JNull, JBool(TRUE), JBool(FALSE), JNum(0), JNum(5),
    JStr(Ann), JStr(<<" ">> \o Bob \o <<" ">>), JStr(<<" ">>), JStr(<<>>),
    JDict(<< <<KeyName, JStr(Ann)>> >>) }
  \cup {JList(its) : its \in UNION {[1..n -> NameItems] : n \in 0..MaxItems}}

InitNames ==
  /\ NoImport
  /\ NoParse
  /\ NoLinks
  /\ field_value \in FieldValues
  /\ item_pos = 0
  /\ extracted = {}
  /\ npc = "start"

\* `if not data_list: return names`, else the try block is entered.
ExtractStart ==
  /\ npc = "start"
  /\ npc' = IF Truthy(field_value) THEN "loop" ELSE "returned"
  /\ UNCHANGED <<ivars, pvars, lvars, field_value, item_pos, extracted>>

\* The for statement is given a number or a boolean: TypeError, caught by
\* `except (TypeError, AttributeError)`.
ExtractIterFails ==
  /\ npc = "loop"
  /\ field_value.k \notin {"list", "str", "dict"}
  /\ npc' = "handler"
  /\ UNCHANGED <<ivars, pvars, lvars, field_value, item_pos, extracted>>

\* One turn of the loop: the names of the next item are added.
ExtractItem ==
  /\ npc = "loop"
  /\ field_value.k \in {"list", "str", "dict"}
  /\ item_pos < Len(IterItems(field_value))
  /\ extracted' = extracted \cup ItemNames(IterItems(field_value)[item_pos + 1])
  /\ item_pos' = item_pos + 1
  /\ UNCHANGED <<ivars, pvars, lvars, field_value, npc>>

\* The loop is exhausted: `return names`.
ExtractLoopEnd ==
  /\ npc = "loop"
  /\ field_value.k \in {"list", "str", "dict"}
  /\ item_pos = Len(IterItems(field_value))
  /\ npc' = "returned"
  /\ UNCHANGED <<ivars, pvars, lvars, field_value, item_pos, extracted>>

\* The handler: the whole field is added if it is a non-blank string,
\* then `return names`.
ExtractFallback ==
  /\ npc = "handler"
  /\ extracted' = IF field_value.k = "str" /\ Strip(field_value.s) # <<>>
                  THEN extracted \cup {Strip(field_value.s)}
                  ELSE extracted
  /\ npc' = "returned"
  /\ UNCHANGED <<ivars, pvars, lvars, field_value, item_pos>>

NextNames ==
  \/ ExtractStart
  \/ ExtractIterFails
  \/ ExtractItem
  \/ ExtractLoopEnd
  \/ ExtractFallback

\* _extract_names on every value of FieldValues.
SpecNames == InitNames /\ [][NextNames]_vars

\* ---------------------------------------- the link classification alone

Fakku == <<"f", "a", "k", "k", "u", ".", "n", "e", "t">>

Mangadex == <<"m", "a", "n", "g", "a", "d", "e", "x">>

Mangabaka == <<"m", "a", "n", "g", "a", "b", "a", "k", "a">>

Myanimelist == <<"m", "y", "a", "n", "i", "m", "e", "l", "i", "s", "t">>

\* The elements of the links list of a record: a URL of each known
\* domain, an unknown one, URLs that name two domains, the empty string
\* and null.
Links ==
  { JStr(<<"/">> \o Fakku), JStr(Mangadex \o <<"/">>), JStr(Mangabaka),
    JStr(Anilist), JStr(Myanimelist), JStr(<<"x">>), JStr(<<>>), JNull,
    JStr(Fakku \o Mangadex), JStr(Mangabaka \o Anilist), JStr(Anilist \o Fakku) }

LinkLists == {JList(its) : its \in UNION {[1..n -> Links] : n \in 0..MaxLinks}}

\* The link loop of one record, in _insert_links of bulk_insert.py or in
\* import_manga_simple of simple_import.py.
InitLinks ==
  /\ NoImport
  /\ NoParse
  /\ NoNames
  /\ link_list \in LinkLists
  /\ link_pos = 0
  /\ link_data = <<>>
  /\ lpc \in {"bulk", "simple"}

\* The link the for statement is about to yield.
NextLink == link_list.items[link_pos + 1]

\* One turn of a link loop.
LinkTurn(importer) ==
  /\ lpc = importer
  /\ link_pos < Len(link_list.items)
  /\ link_pos' = link_pos + 1
  /\ UNCHANGED <<ivars, pvars, nvars, link_list, lpc>>

\* `if link:` is false: nothing is appended.
LinkSkipped ==
  /\ \E importer \in {"bulk", "simple"} : LinkTurn(importer)
  /\ ~Truthy(NextLink)
  /\ UNCHANGED link_data

\* _insert_links appends (manga.id, link, link_type).
LinkAppended ==
  /\ LinkTurn("bulk")
  /\ Truthy(NextLink)
  /\ link_data' = Append(link_data, <<NextLink.s, LinkType(NextLink.s)>>)

\* import_manga_simple appends (manga_id, link, link_type).
SimpleLinkAppended ==
  /\ LinkTurn("simple")
  /\ Truthy(NextLink)
  /\ link_data' = Append(link_data, <<NextLink.s, SimpleLinkType(NextLink.s)>>)

\* The loop is exhausted: the rows collected go to the INSERT.
LinksDone ==
  /\ lpc \in {"bulk", "simple"}
  /\ link_pos = Len(link_list.items)
  /\ lpc' = IF lpc = "bulk" THEN "bulk_inserted" ELSE "simple_inserted"
  /\ UNCHANGED <<ivars, pvars, nvars, link_list, link_pos, link_data>>

NextLinks ==
  \/ LinkSkipped
  \/ LinkAppended
  \/ SimpleLinkAppended
  \/ LinksDone

\* The link loop of either importer on every list of LinkLists.
SpecLinks == InitLinks /\ [][NextLinks]_vars

\* The exit status of the process once main() has ended: sys.exit(1) in
\* the except clause, 0 when import_file returned.
ExitStatus == IF pc = "failed" THEN 1 ELSE 0

\* ------------------------------------------------- derived quantities

\* total_batches = (len(manga_list) + batch_size - 1) // batch_size
TotalBatches == (Len(manga_list) + batch_size - 1) \div batch_size

\* The records of batch number b (1-based) of either loop.
BatchOf(b) == Batch(manga_list, (b - 1) * batch_size, batch_size)

FileIds == {manga_list[j].id : j \in DOMAIN manga_list}

\* The batch numbers the log shows committed in a phase of this run.
CommittedBatches(phase) ==
  {log[j][3] : j \in {k \in DOMAIN log : log[k][1] = "commit" /\ log[k][2] = phase}}

\* The edges <<A, B, T>> the relationships maps of the file list, B a number.
FileEdges ==
  UNION {UNION {{<<manga_list[j].id, x.n, pr[1]>> :
                   x \in {y \in Range(pr[2].items) : y.k = "num"}} :
                pr \in {q \in Range(ItemsOf(manga_list[j].relationships)) : q[2].k = "list"}} :
         j \in DOMAIN manga_list}

\* The store before the run that ended as results[r].
StoreBefore(r) == IF r = 1 THEN db0 ELSE results[r - 1].db

\* Runs r and r + 1 both ran to completion.
BothRan(r) == results[r].outcome = "ok" /\ results[r + 1].outcome = "ok"

\* ------------------------------------------------------------- claims

\* C1: no Phase 2 batch begins before every Phase 1 batch of the input has
\* committed, a batch begins only when the one before it has committed,
\* and no Phase 1 event follows a Phase 2 event.
C1_PhasesNeverInterleave ==
  \A j \in DOMAIN log :
    /\ log[j][2] = 2 =>
         /\ \A b \in 1..TotalBatches : \E k \in 1..(j - 1) : log[k] = <<"commit", 1, b>>
         /\ \A k \in j..Len(log) : log[k][2] = 2
    /\ (log[j][1] = "begin" /\ j > 1) => log[j - 1][1] = "commit"
    /\ log[j][1] = "commit" => (j > 1 /\ log[j - 1] = <<"begin", log[j][2], log[j][3]>>)

\* C1 witness: a run of at least two batches has begun Phase 2.
C1_Witness ==
  /\ TotalBatches >= 2
  /\ \E j \in DOMAIN log : log[j] = <<"begin", 2, 2>>

\* C2: every relationship row the import adds, committed or not, has as its
\* target the id of a record of the input file, even when the store holds
\* other entities.
C2_TargetsAreFileIds ==
  \A st \in {db, tx} :
    \A row \in DOMAIN st.manga_relationships \ DOMAIN db0.manga_relationships :
      row[2] \in FileIds

\* C2 witness: the import ended, it wrote an edge of a record, and the edge
\* of the same record to an entity of the store that is in no record of
\* the file left no row.
C2_Witness ==
  /\ pc = "done"
  /\ \E e, f \in FileEdges :
       /\ e[1] = f[1]
       /\ e \in DOMAIN db.manga_relationships \ DOMAIN db0.manga_relationships
       /\ f[2] \notin FileIds
       /\ f[2] \in DOMAIN db.manga
       /\ f \notin DOMAIN db.manga_relationships

\* C3: after a successful import every edge of the file whose target is the
\* id of a record of the file has its row, wherever the two records stand.
C3_ForwardEdgesKept ==
  pc = "done" =>
    \A e \in FileEdges : e[2] \in FileIds => e \in DOMAIN db.manga_relationships

\* C3 witness: the import ended and holds the row of an edge from a record
\* of the first batch to an id that only later batches carry.
C3_Witness ==
  /\ pc = "done"
  /\ TotalBatches >= 2
  /\ \E e \in FileEdges :
       /\ e[1] \in BatchIds(BatchOf(1))
       /\ e[2] \in FileIds \ BatchIds(BatchOf(1))
       /\ e \in DOMAIN db.manga_relationships

\* The entity ids a store's relationship, join, child and external-source
\* rows name.
ReferencedIds(st) ==
  {row[1] : row \in DOMAIN st.manga_relationships}
  \cup {row[2] : row \in DOMAIN st.manga_relationships}
  \cup UNION {{row[1] : row \in DOMAIN st.join[t]} : t \in JoinTables}
  \cup UNION {{row[1] : row \in DOMAIN st.child[t]} : t \in ChildTables}
  \cup {key[1] : key \in DOMAIN st.manga_external_sources}

\* C4: in every committed store every id a relationship, join or child row
\* names is the id of a committed entity row.
C4_ReferentialIntegrity == ReferencedIds(db) \subseteq DOMAIN db.manga

\* C4 witness: the import committed relationship, join and child rows while
\* the file held an edge to an id the store does not have.
C4_Witness ==
  /\ pc = "done"
  /\ DOMAIN db.manga_relationships # DOMAIN db0.manga_relationships
  /\ db.join # db0.join
  /\ db.child # db0.child
  /\ \E e \in FileEdges : e[2] \notin DOMAIN db.manga

\* C5: the step in which a batch fails leaves the committed store as it
\* was, closes the transaction and ends the run as failed; nothing is
\* logged after the failure, and the only step after it is a new main().
C5_FailureRollsBackAndAborts ==
  /\ [][(pc # "failed" /\ pc' = "failed") =>
          /\ db' = db
          /\ tx' = db
          /\ in_tx' = FALSE
          /\ results'[Len(results')].outcome = "failed"
          /\ log'[Len(log')][1] = "fail"]_vars
  /\ [][pc = "failed" => (pc' = "failed" \/ (run' = run + 1 /\ log' = <<>>))]_vars
  /\ [](\A j \in DOMAIN log : log[j][1] = "fail" => (j = Len(log) /\ pc = "failed"))

\* C5 witness: a run failed in Phase 1 and a name its batch inserted and
\* cached has no committed row.
C5_Witness ==
  /\ pc = "failed"
  /\ log[Len(log)][2] = 1
  /\ \E t \in LookupTables : DOMAIN caches[t] \ DOMAIN db.lookup[t] # {}

\* The last record of the committed Phase 1 batches that carries an id.
LastCommitted(id) ==
  LET js == {j \in DOMAIN manga_list :
               /\ manga_list[j].id = id
               /\ BatchNum(j - 1, batch_size) \in CommittedBatches(1)}
  IN  manga_list[CHOOSE j \in js : \A k \in js : k <= j]

\* C6: when a run has failed the committed store is exactly what the
\* latest commit wrote: every entity of a committed Phase 1 batch is there
\* with the columns its record set, and the cover rows of every committed
\* Phase 2 batch are there.
C6_EarlierBatchesRemain ==
  pc = "failed" =>
    /\ db = last_commit
    /\ \A b \in CommittedBatches(1) : \A id \in BatchIds(BatchOf(b)) :
         /\ id \in DOMAIN db.manga
         /\ LET written == MangaTuple(LastCommitted(id))
                stored  == db.manga[id]
            IN  \A c \in UpdateCols : stored[c] = written[c]
    /\ \A b \in CommittedBatches(2) : \A j \in DOMAIN BatchOf(b) :
         CoverRows(BatchOf(b)[j]) \sqsubseteq db.child["manga_covers"]

\* C6 witness: a run failed after a Phase 1 and a Phase 2 batch committed,
\* and the store is not the one the run started from.
C6_Witness ==
  /\ pc = "failed"
  /\ CommittedBatches(1) # {}
  /\ CommittedBatches(2) # {}
  /\ db # StoreBefore(run)

\* The business columns of every entity row of a store.
BusinessFields(st) ==
  [id \in DOMAIN st.manga |-> [c \in InsertCols |-> st.manga[id][c]]]

C8_NoDuplicateChildRows ==
  \A r \in 1..(Len(results) - 1) :
    BothRan(r) =>
      /\ \A t \in ChildTables :
           BagCardinality(results[r + 1].db.child[t]) = BagCardinality(results[r].db.child[t])
      /\ BagCardinality(results[r + 1].db.manga_relationships)
           = BagCardinality(results[r].db.manga_relationships)

\* ------------------------------------------ one uninterrupted import

RECURSIVE Phase1All(_, _, _, _)
\* The first loop of import_file run to its end on the world
\* w = [st, sq, caches, manga_ids], from index j.
Phase1All(w, list, size, j) ==
  IF j >= Len(list) THEN w
  ELSE LET b == Batch(list, j, size)
           orders == CHOOSE o \in OrderChoices(b, w.caches) : TRUE
           r == InsertLookupData(w.st, w.sq, w.caches, orders, size, Len(LookupOrder))
       IN  Phase1All([st |-> InsertMangaData(r.st, b, size, 0),
                      sq |-> r.sq,
                      caches |-> r.caches,
                      manga_ids |-> AddMangaIds(w.manga_ids, b)],
                     list, size, j + size)

RECURSIVE Phase2All(_, _, _, _, _)
\* The second loop of import_file run to its end.
Phase2All(w, list, size, ext_cache, j) ==
  IF j >= Len(list) THEN w
  ELSE Phase2All([w EXCEPT !.st = InsertRelatedData(@, Batch(list, j, size), w.caches,
                                                    w.manga_ids, ext_cache)],
                 list, size, ext_cache, j + size)

\* The store one run of main() leaves when no statement fails.
FullImport(store, list, size) ==
  LET imp == NewImporter(store)
      w1 == Phase1All([st |-> store, sq |-> SequencesOf(store),
                       caches |-> imp.caches, manga_ids |-> imp.manga_ids],
                      list, size, 0)
  IN  Phase2All(w1, list, size, imp.external_sources_cache, 0).st

\* The name a lookup id stands for.
NameOf(tbl, id) == CHOOSE x \in DOMAIN tbl : tbl[x] = id

\* The contents of a store without what differs from run to run by design:
\* timestamps, and surrogate ids (join rows are read through the name).
Contents(st) ==
  [manga |-> BusinessFields(st),
   lookup |-> [t \in LookupTables |-> DOMAIN st.lookup[t]],
   join |-> [t \in JoinTables |->
               {<<row[1], NameOf(st.lookup[t], row[2]), st.join[t][row]>> :
                  row \in DOMAIN st.join[t]}],
   child |-> st.child,
   manga_relationships |-> st.manga_relationships,
   manga_external_sources |-> st.manga_external_sources]

\* C9: when a run fails and the next run on the same file completes, the
\* store holds what one uninterrupted run from the store before the failed
\* run would have left.
C9_RecoveryByRerun ==
  \A r \in 1..(Len(results) - 1) :
    (results[r].outcome = "failed" /\ results[r + 1].outcome = "ok") =>
      Contents(results[r + 1].db)
        = Contents(FullImport(StoreBefore(r), manga_list, batch_size))

\* C10: once insert_manga_data has run for a batch, every entity of the
\* batch that was already committed holds in each column of the VALUES
\* tuple the value of its record, and its created_at is the old one.
C10_UpsertOverwritesAll ==
  pc = "p1_commit" =>
    \A j \in DOMAIN batch :
      batch[j].id \in DOMAIN db.manga =>
        /\ \A c \in InsertCols : tx.manga[batch[j].id][c] = MangaTuple(batch[j])[c]
        /\ tx.manga[batch[j].id]["created_at"] = db.manga[batch[j].id]["created_at"]

\* --------------------------------------------------- claims C11 .. C20

\* The names a list field gives as the input spells them: a plain string,
\* or an object with a string under the key name; trimmed, blanks dropped.
GivenNames(field) ==
  IF field.k # "list" THEN {}
  ELSE ({Strip(x.s) : x \in {y \in Range(field.items) : y.k = "str"}}
        \cup {Strip(DictGet(x, KeyName).s) :
                x \in {y \in Range(field.items) :
                         y.k = "dict" /\ DictGet(y, KeyName).k = "str"}})
       \ {<<>>}

\* C11: after an import that completed, a name two records of the file
\* share after trimming (spelled as a string or as an object with a name
\* key, in the same or in different batches) is the name of exactly one
\* row of the lookup table, no row holds another spelling of it, and both
\* entities have a join row to the id of that row.
C11_NameDedup ==
  pc = "done" =>
    \A t \in LookupTables : \A j, k \in DOMAIN manga_list :
      \A n \in GivenNames(manga_list[j][t]) \cap GivenNames(manga_list[k][t]) :
        /\ {x \in DOMAIN db.lookup[t] : Strip(x) = n} = {n}
        /\ BagIn(<<manga_list[j].id, db.lookup[t][n]>>, db.join[t])
        /\ BagIn(<<manga_list[k].id, db.lookup[t][n]>>, db.join[t])

\* C11 witness: an import completed in which two records with different
\* ids, in different batches, spell one shared name differently.
C11_Witness ==
  /\ pc = "done"
  /\ \E t \in LookupTables : \E j, k \in DOMAIN manga_list :
       /\ manga_list[j].id # manga_list[k].id
       /\ BatchNum(j - 1, batch_size) # BatchNum(k - 1, batch_size)
       /\ manga_list[j][t] # manga_list[k][t]
       /\ \E n \in GivenNames(manga_list[j][t]) \cap GivenNames(manga_list[k][t]) :
            /\ JStr(n) \notin Range(manga_list[k][t].items)
            /\ n \notin DOMAIN db0.lookup[t]

\* The names of the batch at hand that no commit of this run and no row of
\* the store at its start had put into table t: the import attempts them.
Attempted(t) == BatchNames(batch, t) \ DOMAIN last_commit.lookup[t]

\* C12: when insert_lookup_data has returned for a batch, every name
\* extracted from the five fields of the batch is a key of the cache of
\* its table, mapped to the id of the row of the store with that name,
\* whatever part of the attempted names the insert returned and however
\* many pages the statement took.
C12_EveryNameCached ==
  pc = "p1_manga" =>
    \A t \in LookupTables : \A n \in BatchNames(batch, t) :
      /\ n \in DOMAIN caches[t]
      /\ n \in DOMAIN tx.lookup[t]
      /\ caches[t][n] = tx.lookup[t][n]

\* C12 witness: insert_lookup_data has returned for a batch whose new names
\* of one table outnumber the page size, one of them met the row another
\* writer had committed and one was inserted and returned.
C12_Witness ==
  /\ pc = "p1_manga"
  /\ \E t \in LookupTables :
       /\ Cardinality(Attempted(t)) > batch_size
       /\ \E n \in Attempted(t) : n \in DOMAIN db.lookup[t]
       /\ \E n \in Attempted(t) : n \notin DOMAIN db.lookup[t]

\* C13: within a run a key of a lookup cache stays a key with the same id,
\* no list insert_lookup_data sends holds a name that is cached, and every
\* id its statements draw from a sequence becomes a row: none is spent on
\* a name that had its row.
C13_CacheStable ==
  [][run' = run =>
       \A t \in LookupTables :
         /\ \A n \in DOMAIN caches[t] :
              n \in DOMAIN caches'[t] /\ caches'[t][n] = caches[t][n]
         /\ pc = "p1_lookup" =>
              \A orders \in OrderChoices(batch, caches) :
                Range(orders[t]) \cap DOMAIN caches[t] = {}
         /\ (pc = "p1_lookup" /\ pc' = "p1_manga") =>
              seq'[t] - seq[t] =
                Cardinality(DOMAIN tx'.lookup[t] \ DOMAIN tx.lookup[t])]_vars

\* C13 witness: insert_lookup_data has returned for a later batch of a run
\* that names both a name an earlier batch of the run had cached and a
\* name that was new.
C13_Witness ==
  /\ pc = "p1_manga"
  /\ i > 0
  /\ \E t \in LookupTables : \E n, m \in BatchNames(batch, t) :
       /\ n \in DOMAIN db.lookup[t] \ DOMAIN StoreBefore(run).lookup[t]
       /\ caches[t][n] = db.lookup[t][n]
       /\ m \notin DOMAIN db.lookup[t]

\* The names of the batch of table t that are in no cache while the store
\* holds a row under them.
Uncached(t) == (BatchNames(batch, t) \ DOMAIN caches[t]) \cap DOMAIN tx.lookup[t]

\* C14: when a name of the batch is absent from the cache and the store
\* holds a row with that name, insert_lookup_data can complete (the step
\* has a choice of lists to send), and when it does the row keeps its id, the table has grown by the names that had
\* no row and by nothing else, and the cache maps the name to the id of
\* the row that was there.
C14_ConflictRecovered ==
  [][(pc = "p1_lookup" /\ \E t \in LookupTables : Uncached(t) # {}) =>
       /\ OrderChoices(batch, caches) # {}
       /\ pc' = "p1_manga" =>
            \A t \in LookupTables :
              /\ \A n \in Uncached(t) :
                   /\ tx'.lookup[t][n] = tx.lookup[t][n]
                   /\ n \in DOMAIN caches'[t]
                   /\ caches'[t][n] = tx.lookup[t][n]
              /\ DOMAIN tx'.lookup[t] = DOMAIN tx.lookup[t] \cup BatchNames(batch, t)]_vars

\* C14 witness: insert_lookup_data has returned for a batch one of whose
\* names another writer had committed after the caches were loaded, and
\* the cache holds the id of that row.
C14_Witness ==
  /\ pc = "p1_manga"
  /\ foreign > 0
  /\ \E t \in LookupTables : \E n \in Attempted(t) :
       /\ n \in DOMAIN db.lookup[t]
       /\ n \in DOMAIN caches[t]
       /\ caches[t][n] = db.lookup[t][n]

\* C18: once main() has ended, the exit status is non-zero if the file was
\* not found, the connection failed or a batch transaction failed, and it
\* is zero exactly when no such fault occurred and every batch committed
\* in both phases (none, for a file without records).
C18_ExitStatus ==
  pc \in {"done", "failed"} =>
    LET fault == \E j \in DOMAIN log : log[j][1] \in {"no_file", "no_connection", "fail"}
        completed ==
          \A b \in 1..TotalBatches : \A phase \in {1, 2} :
            \E j \in DOMAIN log : log[j] = <<"commit", phase, b>>
    IN  /\ fault => ExitStatus # 0
        /\ ExitStatus = 0 <=> (completed /\ ~fault)

\* C18 witness: main() has ended with a non-zero status after every batch
\* of Phase 1 and one of Phase 2 had committed.
C18_Witness ==
  /\ pc = "failed"
  /\ ExitStatus = 1
  /\ TotalBatches >= 2
  /\ log[Len(log)] = <<"fail", 2, 2>>

\* The lines of the file that are not blank and decode as JSON, and those
\* that are not blank and do not.
DecodableLines ==
  {j \in DOMAIN lines : Strip(lines[j].raw) # <<>> /\ JsonLoads(Strip(lines[j].raw)).ok}

UndecodableLines ==
  {j \in DOMAIN lines : Strip(lines[j].raw) # <<>> /\ ~JsonLoads(Strip(lines[j].raw)).ok}

\* The records of the lines of a set, in file order.
RecordsOf(S) ==
  LET picked == SelectSeq([j \in DOMAIN lines |-> j], LAMBDA j : j \in S)
  IN  [k \in DOMAIN picked |-> ParseMangaJson(JsonLoads(Strip(lines[picked[k]].raw)).value)]

\* C15: when parse_jsonl_file returns, the records are those of the
\* non-blank lines that decode as JSON, one per line and in file order,
\* and the skipped lines logged are exactly the non-blank lines that do
\* not decode.
C15_ParserFaultIsolation ==
  ppc = "returned" =>
    /\ parsed = RecordsOf(DecodableLines)
    /\ {errors[e][1] : e \in DOMAIN errors} = UndecodableLines
    /\ Len(errors) = Cardinality(UndecodableLines)

\* C16: parse_jsonl_file raises only when the file could not be opened.
C16_FatalOnlyIfUnopenable == ppc = "raised" => ~file_exists

\* The least k with k * b >= n.
CeilDiv(n, b) == CHOOSE k \in 0..n : k * b >= n /\ (k = 0 \/ (k - 1) * b < n)

\* The batch numbers of the begin events of a phase, in the order of the log.
Begun(phase) ==
  LET evs == SelectSeq(log, LAMBDA e : e[1] = "begin" /\ e[2] = phase)
  IN  [k \in DOMAIN evs |-> evs[k][3]]

\* C17: N records with batch size B make ceil(N/B) batches; the batch the
\* import works on, in either phase, is batch number b of them, the B
\* records after the first (b - 1) * B in input order, or for the last
\* batch the 1 to B records that remain; each phase begins the batches
\* 1, 2, ... once each, and a completed import has begun all of them in
\* both phases.
C17_BatchPartition ==
  /\ TotalBatches = CeilDiv(Len(manga_list), batch_size)
  /\ pc \in {"p1_begin", "p1_lookup", "p1_manga", "p1_commit",
             "p2_begin", "p2_related", "p2_commit"} =>
       LET b == BatchNum(i, batch_size)
       IN  /\ b \in 1..TotalBatches
           /\ i = (b - 1) * batch_size
           /\ batch = [k \in 1..Len(batch) |-> manga_list[i + k]]
           /\ IF b < TotalBatches
              THEN Len(batch) = batch_size
              ELSE Len(batch) \in 1..batch_size /\ i + Len(batch) = Len(manga_list)
  /\ \A phase \in {1, 2} :
       /\ \A k \in DOMAIN Begun(phase) : Begun(phase)[k] = k
       /\ pc = "done" => Len(Begun(phase)) = TotalBatches

\* C17 witness: Phase 2 works on the last batch of several, and that batch
\* is shorter than the batch size.
C17_Witness ==
  /\ pc = "p2_related"
  /\ TotalBatches >= 2
  /\ BatchNum(i, batch_size) = TotalBatches
  /\ Len(batch) < batch_size
  /\ Begun(1) = [k \in 1..TotalBatches |-> k]

\* The <<key, values>> pairs the records of the batch at hand give for the
\* external-source table, in input order.
BatchSourceRows ==
  ConcatAll([j \in DOMAIN batch |->
               ExternalSourceRows(batch[j], external_sources_cache)])

\* The values of the last of the rows with a key.
LastFor(rows, key) ==
  rows[CHOOSE j \in DOMAIN rows :
         rows[j][1] = key /\ \A k \in DOMAIN rows : rows[k][1] = key => k <= j][2]

\* C19: the committed external-source table holds one row per
\* (entity id, source id); the commit of a Phase 2 batch leaves under each
\* key the batch names the values of the last record of the batch with
\* that key and every other row as it was, and no other step changes the
\* table: the row of a key is that of the latest record imported for it.
C19_LatestSourceWins ==
  [][LET old  == db.manga_external_sources
         new  == db'.manga_external_sources
         rows == BatchSourceRows
         keys == {rows[j][1] : j \in DOMAIN rows}
     IN  IF pc = "p2_commit" /\ pc' # "failed"
         THEN /\ DOMAIN new = DOMAIN old \cup keys
              /\ \A key \in keys : new[key] = LastFor(rows, key)
              /\ \A key \in DOMAIN old \ keys : new[key] = old[key]
         ELSE new = old]_vars

\* C19 witness: an import completed whose file holds, in different
\* batches, two records for one entity and source with different values,
\* over a store that had a row under that key; the row holds the values of
\* the later record.
C19_Witness ==
  /\ pc = "done"
  /\ \E j, k \in DOMAIN manga_list :
       /\ j < k
       /\ \A m \in DOMAIN manga_list : m > k => manga_list[m].id # manga_list[k].id
       /\ LET rj == ExternalSourceRows(manga_list[j], external_sources_cache)
              rk == ExternalSourceRows(manga_list[k], external_sources_cache)
          IN  \E a \in DOMAIN rj, b \in DOMAIN rk :
                /\ rj[a][1] = rk[b][1]
                /\ rj[a][2] # rk[b][2]
                /\ rj[a][1] \in DOMAIN db0.manga_external_sources
                /\ db.manga_external_sources[rk[b][1]] = rk[b][2]

\* Every row of store a is a row of store b, and a row of a lookup, join,
\* child or relationship table of a is in b with the same columns.
Keeps(a, b) ==
  /\ DOMAIN a.manga \subseteq DOMAIN b.manga
  /\ DOMAIN a.manga_external_sources \subseteq DOMAIN b.manga_external_sources
  /\ \A n \in DOMAIN a.external_sources :
       n \in DOMAIN b.external_sources /\ b.external_sources[n] = a.external_sources[n]
  /\ \A t \in LookupTables : \A n \in DOMAIN a.lookup[t] :
       n \in DOMAIN b.lookup[t] /\ b.lookup[t][n] = a.lookup[t][n]
  /\ \A t \in JoinTables : a.join[t] \sqsubseteq b.join[t]
  /\ \A t \in ChildTables : a.child[t] \sqsubseteq b.child[t]
  /\ a.manga_relationships \sqsubseteq b.manga_relationships

\* C20: no step of an import, in any batch of any run, removes a committed
\* row of any table or changes a committed row of a lookup, join, child or
\* relationship table; the open transaction sees every committed row too.
C20_PurelyAdditive ==
  [][Keeps(db, db') /\ Keeps(db', tx')]_vars

\* C20 witness: a second run completed over a store that held entities,
\* lookup, join and child rows before the first, and the child and lookup
\* tables have grown.
C20_Witness ==
  /\ pc = "done"
  /\ run = 2
  /\ db0.manga # <<>>
  /\ \E t \in ChildTables :
       db0.child[t] # EmptyBag /\ BagCardinality(db.child[t]) > BagCardinality(db0.child[t])
  /\ \E t \in LookupTables :
       db0.lookup[t] # <<>> /\ DOMAIN db.lookup[t] # DOMAIN db0.lookup[t]

\* ------------------------------------------------------ claims C21 .. C30

\* C21: in a file that names no id twice and whose records have no fault
\* in their related data, a text that is no number in year, rating,
\* final_volume or final_chapter of a record never makes the run fail, and
\* once the run is done the record has its row, with NULL in the field
\* that held the text.
C21_NumericFaultAbsorbed ==
  (/\ \A a, b \in DOMAIN file : a # b => file[a] # file[b]
   /\ ~InsertRelatedRejected(manga_list, db0.external_sources)) =>
    /\ pc # "failed"
    /\ pc = "done" =>
         \A j \in DOMAIN file :
           LET raw == FaultyRecords[file[j] - Len(Pool)]
           IN  /\ raw.id \in DOMAIN db.manga
               /\ \A c \in NumericCols :
                    raw[c] = NonNumeric => db.manga[raw.id][c] = NULL

\* The lines of the file with the given text.
LinesWith(raw) == {j \in DOMAIN lines : lines[j].readable /\ lines[j].raw = raw}

\* The records parsed so far that carry the given id.
ParsedWithId(id) == {k \in DOMAIN parsed : parsed[k].id = JNum(id)}

\* C22: a final_chapter given as the text " 7" is stored as the number 7
\* and one given as the text "N/A" as null; neither line is logged as an
\* error, and when the parser returns each such line has given one record.
C22_FinalChapterCoercion ==
  /\ \A k \in ParsedWithId(2) : parsed[k].final_chapter = JNum(7)
  /\ \A k \in ParsedWithId(3) : parsed[k].final_chapter = JNull
  /\ \A e \in DOMAIN errors :
       errors[e][1] \notin LinesWith(RawPadded) \cup LinesWith(RawNotANumber)
  /\ ppc = "returned" =>
       /\ Cardinality(ParsedWithId(2)) = Cardinality(LinesWith(RawPadded))
       /\ Cardinality(ParsedWithId(3)) = Cardinality(LinesWith(RawNotANumber))

\* C22 witness: the parser returned from a file with a line of each kind.
C22_Witness ==
  /\ ppc = "returned"
  /\ ParsedWithId(2) # {}
  /\ ParsedWithId(3) # {}

\* A value that qualifies as a name: a non-empty string.
Qualifies(v) == v.k = "str" /\ v.s # <<>>

\* The name the priority rule gives for an object: the value of the first
\* of name, Name, title, Title that qualifies, else the object as a string.
PriorityName(item) ==
  LET keys == <<KeyName, KeyNameCap, KeyTitle, KeyTitleCap>>
      hits == {j \in DOMAIN keys : Qualifies(DictGet(item, keys[j]))}
  IN  IF hits = {} THEN PyStr(item)
      ELSE DictGet(item, keys[CHOOSE j \in hits : \A h \in hits : j <= h]).s

\* The names a list of elements gives when its objects follow the
\* priority rule.
PriorityNames(its) ==
  UNION {IF its[j].k = "dict"
         THEN (IF Strip(PriorityName(its[j])) # <<>>
               THEN {Strip(PriorityName(its[j]))} ELSE {})
         ELSE ItemNames(its[j]) : j \in DOMAIN its}

\* C23: when _extract_names returns for a list, every object element has
\* given the value of the first of name, Name, title, Title that is a
\* non-empty string, or its string representation when none is.
C23_ExtractionPriority ==
  (npc = "returned" /\ field_value.k = "list") =>
    extracted = PriorityNames(field_value.items)

\* C24: when _extract_names returns for a field that is one string, the
\* result is the set of that string trimmed, or the empty set when it is
\* blank; for a number or a boolean the result is the empty set.
C24_SingleStringIsOneName ==
  npc = "returned" =>
    /\ field_value.k = "str" =>
         extracted = IF Strip(field_value.s) # <<>>
                     THEN {Strip(field_value.s)} ELSE {}
    /\ field_value.k \in {"num", "bool"} => extracted = {}

\* C25: _extract_names raises on no value of the field (before it has
\* returned it always has a step to take), and every name it holds, at
\* its return as on the way, is a non-empty string with no blank at
\* either end.
C25_ExtractionNeverRaises ==
  /\ npc \in {"start", "loop", "handler"} => ENABLED NextNames
  /\ \A n \in extracted :
       n # <<>> /\ ~IsSpace(n[1]) /\ ~IsSpace(n[Len(n)])

\* C25 witness: it returned names for a list that mixes a nested list
\* holding a null with a string spelled with blanks around it.
C25_Witness ==
  /\ npc = "returned"
  /\ field_value.k = "list"
  /\ \E a, b \in DOMAIN field_value.items :
       /\ field_value.items[a].k = "list"
       /\ field_value.items[b].k = "str"
       /\ field_value.items[b].s # Strip(field_value.items[b].s)
  /\ Cardinality(extracted) = 2

\* C26: when the related data of a batch is about to be written, every
\* name of every record of the batch is a key of the cache of its table;
\* and once the run is done, every record of the file has, for each of its
\* names, a join row that points at the committed lookup row of that name.
C26_EveryPairJoined ==
  /\ pc = "p2_related" =>
       \A t \in LookupTables : BatchNames(batch, t) \subseteq DOMAIN caches[t]
  /\ pc = "done" =>
       \A t \in LookupTables : \A j \in DOMAIN manga_list :
         \A n \in ExtractNames(NameField(manga_list[j], t)) :
           /\ n \in DOMAIN db.lookup[t]
           /\ BagIn(<<manga_list[j].id, db.lookup[t][n]>>, db.join[t])

\* C26 witness: a run is done on a file with a record of two author
\* names, after another writer committed a lookup row under a name of the
\* file, and the two join rows of that record are there.
C26_Witness ==
  /\ pc = "done"
  /\ foreign = 1
  /\ \E j \in DOMAIN manga_list :
       /\ Cardinality(ExtractNames(manga_list[j].authors)) = 2
       /\ \A n \in ExtractNames(manga_list[j].authors) :
            BagIn(<<manga_list[j].id, db.lookup["authors"][n]>>, db.join["authors"])

\* The last record of the file that carries the given id.
LastRecordOf(id) ==
  manga_list[CHOOSE j \in DOMAIN manga_list :
               /\ manga_list[j].id = id
               /\ \A k \in DOMAIN manga_list : manga_list[k].id = id => k <= j]

\* The ids that two records of the file carry.
RepeatedIds ==
  {manga_list[a].id : a \in {x \in DOMAIN manga_list :
      \E y \in DOMAIN manga_list : y # x /\ manga_list[y].id = manga_list[x].id}}

\* C27: once an import is done, the row of an id that two records of the
\* file carry holds, in every column the file gives, the value of the
\* later of the records.
C27_LaterRecordWins ==
  pc = "done" =>
    \A id \in RepeatedIds :
      /\ id \in DOMAIN db.manga
      /\ LET written == MangaTuple(LastRecordOf(id))
             stored == db.manga[id]
         IN  \A c \in InsertCols : stored[c] = written[c]

\* C28: while no batch transaction is open, every entry of a lookup cache
\* is a committed row of its table under the same id, and every id of
\* manga_ids is the id of a committed row of manga.
C28_MemoryMatchesStore ==
  ~in_tx =>
    /\ \A t \in LookupTables : \A n \in DOMAIN caches[t] :
         n \in DOMAIN db.lookup[t] /\ db.lookup[t][n] = caches[t][n]
    /\ manga_ids \subseteq DOMAIN db.manga

\* The ids of the sources that the source map of a record names, that the
\* store defined when the caches were loaded, and whose data is not empty.
KnownSourceIds(manga) ==
  {db0.external_sources[pr[1]] :
     pr \in {q \in Range(ItemsOf(manga.source)) :
               q[1] \in DOMAIN db0.external_sources /\ Truthy(q[2])}}

\* C29: the table of source definitions stays as it was before the run
\* and the cache of sources as load_caches filled it; on a file whose
\* records have no other fault, an entry of a source the table did not
\* hold makes no statement fail; and once the run is done the
\* external-source rows of a record are one per source of its map that
\* the table held and whose data is not empty, and no other.
C29_SourcesOnlyRead ==
  /\ db.external_sources = db0.external_sources
  /\ tx.external_sources = db0.external_sources
  /\ pc # "idle" => external_sources_cache = db0.external_sources
  /\ (/\ \A j \in DOMAIN file : Records[file[j]].id \in {4, 9, 10}
      /\ \A a, b \in DOMAIN file : a # b => file[a] # file[b])
     => pc # "failed"
  /\ pc = "done" =>
       \A j \in DOMAIN manga_list :
         {k \in DOMAIN db.manga_external_sources : k[1] = manga_list[j].id}
           = {<<manga_list[j].id, sid>> : sid \in KnownSourceIds(manga_list[j])}

\* C29 witness: a run is done on a file with the record of a defined and
\* an undefined source and the record of a defined source with empty
\* data; the only external-source row of the two is that of the defined
\* source with data.
C29_Witness ==
  /\ pc = "done"
  /\ {9, 10} \subseteq {manga_list[j].id : j \in DOMAIN manga_list}
  /\ {k \in DOMAIN db.manga_external_sources : k[1] \in {9, 10}} = {<<9, 1>>}

\* The type the classification rule gives a URL: the first rule that
\* matches, in the order store, reader, database, else unknown.
RuleType(url) ==
  CASE Contains(url, Fakku) -> "store"
    [] ~Contains(url, Fakku)
       /\ (Contains(url, Mangadex) \/ Contains(url, Mangabaka)) -> "reader"
    [] ~Contains(url, Fakku) /\ ~Contains(url, Mangadex) /\ ~Contains(url, Mangabaka)
       /\ (Contains(url, Anilist) \/ Contains(url, Myanimelist)) -> "database"
    [] OTHER -> "unknown"

\* The non-empty links among the first n of the record, in order.
NonEmptyLinks(n) ==
  LET taken == SelectSeq(SubSeq(link_list.items, 1, n), Truthy)
  IN  [j \in DOMAIN taken |-> taken[j].s]

\* C30: the link rows an importer has collected are one per non-empty
\* link taken so far, in order, each with the type the rule gives its URL;
\* empty links give no row.
C30_LinkClassification ==
  /\ [j \in DOMAIN link_data |-> link_data[j][1]] = NonEmptyLinks(link_pos)
  /\ \A j \in DOMAIN link_data : link_data[j][2] = RuleType(link_data[j][1])
====
